---- MODULE Spec2Model ----
(***************************************************************************)
(* A model of reqtruct (github.com/wlMalk/reqtruct): the decoder that      *)
(* binds the parameters of a http.Request (JSON body, form, files, header, *)
(* query, path) to the fields of a struct.                                 *)
(*                                                                         *)
(* Strings are sequences of one-character strings, so that tokenizing,     *)
(* case folding, suffix stripping, natural sorting and number parsing are  *)
(* computed as the code computes them.                                     *)
(***************************************************************************)
EXTENDS Integers, Sequences, FiniteSets, TLC

(***************************************************************************)
(* Characters and strings                                                  *)
(***************************************************************************)

\* The characters of the model in ASCII order; Ord gives the byte order Go's
\* string comparison uses.
AsciiOrder ==
  << "\t", " ", "+", ",", "-", ".",
     "0", "1", "2", "3", "4", "5", "6", "7", "8", "9",
     "A", "B", "C", "D", "E", "F", "G", "H", "I", "J", "K", "L", "M",
     "N", "O", "P", "Q", "R", "S", "T", "U", "V", "W", "X", "Y", "Z",
     "[", "]", "_",
     "a", "b", "c", "d", "e", "f", "g", "h", "i", "j", "k", "l", "m",
     "n", "o", "p", "q", "r", "s", "t", "u", "v", "w", "x", "y", "z" >>

Ord(c) == CHOOSE i \in 1..Len(AsciiOrder) : AsciiOrder[i] = c

Digits == {"0", "1", "2", "3", "4", "5", "6", "7", "8", "9"}

DigitVal(c) == Ord(c) - Ord("0")

IsUpper(c) == c \in {AsciiOrder[i] : i \in Ord("A")..Ord("Z")}

\* unicode.ToLower restricted to ASCII
Lower(c) == IF IsUpper(c) THEN AsciiOrder[Ord(c) - Ord("A") + Ord("a")] ELSE c

\* strings.EqualFold
EqualFold(a, b) ==
  /\ Len(a) = Len(b)
  /\ \A i \in 1..Len(a) : Lower(a[i]) = Lower(b[i])

\* unicode.IsSpace
IsSpace(c) == c \in {" ", "\t", "\n", "\r", "\f"}

\* the element of a one-element set: The({e : x \in {v}}) is e with x bound
\* to v, and v is computed once
The(S) == CHOOSE x \in S : TRUE

\* the rune 0: an unset separator
NUL == "NUL"

\* a < b in Go's byte-wise string order
RECURSIVE StrLess(_, _)
StrLess(a, b) ==
  IF b = <<>> THEN FALSE
  ELSE IF a = <<>> THEN TRUE
  ELSE IF a[1] = b[1] THEN StrLess(Tail(a), Tail(b))
  ELSE Ord(a[1]) < Ord(b[1])

\* strings.Contains(s, string(c))
ContainsChar(s, c) == \E i \in 1..Len(s) : s[i] = c

\* strings.Split(s, string(c)): always at least one part
RECURSIVE Split(_, _)
Split(s, c) ==
  IF ~ContainsChar(s, c) THEN <<s>>
  ELSE LET i == CHOOSE j \in 1..Len(s) :
                  s[j] = c /\ \A h \in 1..(j - 1) : s[h] # c
       IN <<SubSeq(s, 1, i - 1)>> \o Split(SubSeq(s, i + 1, Len(s)), c)

\* a + "." + b and friends
Join(a, c, b) == a \o <<c>> \o b

RECURSIVE DigitsValue(_, _)
DigitsValue(s, acc) ==
  IF s = <<>> THEN acc ELSE DigitsValue(Tail(s), acc * 10 + DigitVal(s[1]))

\* strconv.ParseInt(s, 10, 0) and strconv.Atoi(s): an optional sign, then
\* one or more decimal digits and nothing else.
ParseInt(s) ==
  LET signed == s # <<>> /\ s[1] \in {"+", "-"}
      body   == IF signed THEN Tail(s) ELSE s
  IN IF body # <<>> /\ \A i \in 1..Len(body) : body[i] \in Digits
     THEN [ok |-> TRUE,
           v  |-> IF signed /\ s[1] = "-" THEN 0 - DigitsValue(body, 0)
                  ELSE DigitsValue(body, 0)]
     ELSE [ok |-> FALSE, v |-> 0]

RECURSIVE NatDigits(_)
NatDigits(n) ==
  IF n < 10 THEN <<AsciiOrder[Ord("0") + n]>>
  ELSE NatDigits(n \div 10) \o <<AsciiOrder[Ord("0") + (n % 10)]>>

\* fmt.Sprint of an integer
SprintInt(n) == IF n < 0 THEN <<"-">> \o NatDigits(0 - n) ELSE NatDigits(n)

(***************************************************************************)
(* natsort.Sort: the order decodeMaps visits the keys in                   *)
(***************************************************************************)

\* the chunks of regexp (\d+|\D+): maximal runs of digits and of non-digits
RECURSIVE chunkify(_)
chunkify(s) ==
  IF s = <<>> THEN <<>>
  ELSE LET d == s[1] \in Digits
           n == CHOOSE j \in 1..Len(s) :
                  /\ \A h \in 1..j : (s[h] \in Digits) = d
                  /\ (j = Len(s) \/ (s[j + 1] \in Digits) # d)
       IN <<SubSeq(s, 1, n)>> \o chunkify(SubSeq(s, n + 1, Len(s)))

RECURSIVE compareChunks(_, _, _)
compareChunks(ca, cb, i) ==
  IF i > Len(ca) THEN FALSE
  ELSE IF i > Len(cb) THEN FALSE
  ELSE LET a == ParseInt(ca[i])
           b == ParseInt(cb[i])
       IN IF a.ok /\ b.ok /\ a.v # b.v THEN a.v < b.v
          ELSE IF (a.ok /\ b.ok) \/ ca[i] = cb[i]
               THEN IF i = Len(ca) THEN TRUE
                    ELSE IF i = Len(cb) THEN FALSE
                    ELSE compareChunks(ca, cb, i + 1)
          ELSE StrLess(ca[i], cb[i])

\* natsort.Compare(a, b): a precedes b in natural order
Compare(a, b) == compareChunks(chunkify(a), chunkify(b), 1)

\* a strictly precedes b for sort.Sort with Less = Compare
Before(a, b) == Compare(a, b) /\ ~Compare(b, a)

(***************************************************************************)
(* Locations                                                               *)
(***************************************************************************)

locationNone   == 0
LocationPath   == 1
LocationQuery  == 2
LocationHeader == 3
LocationForm   == 4
LocationFile   == 5
LocationJSON   == 6

\* locationValues; 0 (locationNone) for a name that is no location
nameToLocation(name) ==
  CASE name = "path"   -> LocationPath
    [] name = "query"  -> LocationQuery
    [] name = "header" -> LocationHeader
    [] name = "form"   -> LocationForm
    [] name = "file"   -> LocationFile
    [] name = "json"   -> LocationJSON
    [] OTHER           -> locationNone

\* The keys of locationTags. Go ranges over the map in an unspecified order:
\* fieldAlias takes the order as a parameter, and cache.get draws it.
TagOrders ==
  { <<"path", "query", "header", "form", "file", "json">>,
    <<"json", "file", "form", "header", "query", "path">> }

containsInt(in, i) == \E n \in 1..Len(in) : in[n] = i

(***************************************************************************)
(* Types: what reflect.Type tells the decoder                              *)
(***************************************************************************)

TInt     == [k |-> "int", name |-> "int"]
TString  == [k |-> "string", name |-> "string"]
TMap     == [k |-> "map", name |-> ""]
TPtr(e)  == [k |-> "ptr", name |-> "", e |-> e]
TSlice(e) == [k |-> "slice", name |-> "", e |-> e]
TStruct(n) == [k |-> "struct", name |-> n]
\* type IDs []int, a named sequence type a converter can be registered for
TIDs     == [k |-> "slice", name |-> "IDs", e |-> TInt]
\* type Time struct{ time.Time } with func (t *Time) UnmarshalText
TTime    == TStruct("Time")
\* mime/multipart.FileHeader (a struct) and mime/multipart.File (an interface)
TFileHeader == TStruct("multipart.FileHeader")
TFile    == [k |-> "interface", name |-> "multipart.File"]

Kind(t) == t.k

Dash == <<"-">>

NoTags == [path |-> <<>>, query |-> <<>>, header |-> <<>>, form |-> <<>>,
           file |-> <<>>, json |-> <<>>, name |-> <<>>, from |-> <<>>]

\* `from:"a,b"`: the tag value as its comma-separated, trimmed tokens
From(locs) == [NoTags EXCEPT !.from = locs]

Fld(name, typ, tags) == [name |-> name, typ |-> typ, tags |-> tags, anon |-> FALSE]
Embedded(name, typ, tags) == [name |-> name, typ |-> typ, tags |-> tags, anon |-> TRUE]

\* field and alias names
sAuth   == <<"A", "u", "t", "h">>
sNn     == <<"N", "n">>
sNs     == <<"N", "s">>
sId     == <<"I", "d">>
sX      == <<"X">>
sN      == <<"N">>
sM      == <<"M">>
sA      == <<"A">>
sB      == <<"B">>
sC      == <<"C">>
sAa     == <<"A", "a">>
sBb     == <<"B", "b">>
sQq     == <<"Q", "q">>
sPagination == <<"P", "a", "g", "i", "n", "a", "t", "i", "o", "n">>
sLimit  == <<"L", "i", "m", "i", "t">>
sOffset == <<"O", "f", "f", "s", "e", "t">>
sFilter == <<"F", "i", "l", "t", "e", "r">>
sKind   == <<"K", "i", "n", "d">>
sTag    == <<"T", "a", "g">>
sUserID == <<"U", "s", "e", "r", "I", "D">>
sIds    == <<"I", "d", "s">>
sSince  == <<"S", "i", "n", "c", "e">>
sDoc    == <<"D", "o", "c">>
sNote   == <<"N", "o", "t", "e">>
sFilename == <<"F", "i", "l", "e", "n", "a", "m", "e">>
sHeader == <<"H", "e", "a", "d", "e", "r">>
sSize   == <<"S", "i", "z", "e">>
sTime   == <<"T", "i", "m", "e">>
sWall   == <<"w", "a", "l", "l">>
sExt    == <<"e", "x", "t">>
sIn     == <<"I", "n">>
sBase   == <<"B", "a", "s", "e">>
sMm     == <<"M", "m">>
sHi     == <<"H", "i">>
sLow    == <<"L", "o", "w">>
sMid    == <<"M", "i", "d">>

\* The struct types of the model, as Go declares them.
\*
\*   type Req struct {
\*       Auth string `from:"header"`
\*       Nn   int    `from:"query"`
\*       Ns   []int  `from:"query"`
\*       Id   int    `from:"path,query"`
\*   }
\*   type Item struct { N int; M int }
\*   type List struct { X []Item `from:"query"` }
\*   type Inner struct { C int `json:"c"` }
\*   type Body  struct { A  int `json:"a"`;  B  Inner `json:"b"` }
\*   type Mixed struct { Aa int `json:"aa"`; Bb Inner `json:"bb"`; Qq int `from:"query"` }
\*   type Pagination struct { Limit int; Offset int `from:"header"` }
\*   type Filter     struct { Kind int; Tag int `from:"header"` }
\*   type GetImagesRequest struct {
\*       Pagination `from:"query"`
\*       UserID int    `from:"path"`
\*       Filter Filter `from:"query"`
\*   }
\*   type Conv struct { Ids IDs `from:"query"`; Since Time `from:"query"` }
\*   type Upload struct { Doc *multipart.FileHeader; Note string }
\*   type Hi   struct { Nn int }
\*   type Low  struct { Mm int `name:"nn"` }
\*   type Twin struct { Hi `from:"query"`; Low `from:"query"` }
\*   type Mid  struct { Nn int; Low }
\*   type Deep struct { Mid `from:"query"` }
\*   type Row  struct { B []Item }
\*   type Nest struct { A []Row `from:"query"` }
\*   type Dual struct { Nn int `query:"q" header:"h"` }
\*   type Album struct { Doc []multipart.File }
\*   type Node struct { N int; X *Node }
\*   type Ping struct { A *Pong }
\*   type Pong struct { B []Ping }
Decl(n) ==
  CASE n = "Req" ->
         << Fld(sAuth, TString, From(<<"header">>)),
            Fld(sNn, TInt, From(<<"query">>)),
            Fld(sId, TInt, From(<<"path", "query">>)) >>
    [] n = "Nums" ->
         << Fld(sN, TInt, From(<<"query">>)),
            Fld(sNn, TInt, From(<<"query">>)),
            Fld(sNs, TSlice(TInt), From(<<"query">>)) >>
    [] n = "Item" -> << Fld(sN, TInt, NoTags), Fld(sM, TInt, NoTags) >>
    [] n = "List" -> << Fld(sX, TSlice(TStruct("Item")), From(<<"query">>)) >>
    [] n = "Inner" -> << Fld(sC, TInt, [NoTags EXCEPT !.json = <<"c">>]) >>
    [] n = "Body" ->
         << Fld(sA, TInt, [NoTags EXCEPT !.json = <<"a">>]),
            Fld(sB, TStruct("Inner"), [NoTags EXCEPT !.json = <<"b">>]) >>
    [] n = "Mixed" ->
         << Fld(sAa, TInt, [NoTags EXCEPT !.json = <<"a", "a">>]),
            Fld(sBb, TStruct("Inner"), [NoTags EXCEPT !.json = <<"b", "b">>]),
            Fld(sQq, TInt, From(<<"query">>)) >>
    [] n = "Pagination" ->
         << Fld(sLimit, TInt, NoTags),
            Fld(sOffset, TInt, From(<<"header">>)) >>
    [] n = "Filter" ->
         << Fld(sKind, TInt, NoTags),
            Fld(sTag, TInt, From(<<"header">>)) >>
    [] n = "GetImagesRequest" ->
         << Embedded(sPagination, TStruct("Pagination"), From(<<"query">>)),
            Fld(sUserID, TInt, From(<<"path">>)),
            Fld(sFilter, TStruct("Filter"), From(<<"query">>)) >>
    [] n = "Conv" ->
         << Fld(sIds, TIDs, From(<<"query">>)),
            Fld(sSince, TTime, From(<<"query">>)) >>
    [] n = "Base" -> << Fld(sX, TInt, NoTags) >>
    [] n = "Wrap" -> << Embedded(sBase, TStruct("Base"), NoTags) >>
    [] n = "Outer" -> << Fld(sIn, TStruct("Wrap"), From(<<"query">>)) >>
    [] n = "Hi" -> << Fld(sNn, TInt, NoTags) >>
    [] n = "Low" -> << Fld(sMm, TInt, [NoTags EXCEPT !.name = <<"n", "n">>]) >>
    [] n = "Twin" ->
         << Embedded(sHi, TStruct("Hi"), From(<<"query">>)),
            Embedded(sLow, TStruct("Low"), From(<<"query">>)) >>
    [] n = "Mid" ->
         << Fld(sNn, TInt, NoTags), Embedded(sLow, TStruct("Low"), NoTags) >>
    [] n = "Deep" -> << Embedded(sMid, TStruct("Mid"), From(<<"query">>)) >>
    [] n = "Row" -> << Fld(sB, TSlice(TStruct("Item")), NoTags) >>
    [] n = "Nest" -> << Fld(sA, TSlice(TStruct("Row")), From(<<"query">>)) >>
    [] n = "Dual" ->
         << Fld(sNn, TInt, [NoTags EXCEPT !.query = <<"q">>, !.header = <<"h">>]) >>
    [] n = "Album" -> << Fld(sDoc, TSlice(TFile), NoTags) >>
    [] n = "Node" -> << Fld(sN, TInt, NoTags), Fld(sX, TPtr(TStruct("Node")), NoTags) >>
    [] n = "Ping" -> << Fld(sA, TPtr(TStruct("Pong")), NoTags) >>
    [] n = "Pong" -> << Fld(sB, TSlice(TStruct("Ping")), NoTags) >>
    [] n = "Upload" ->
         << Fld(sDoc, TPtr(TFileHeader), NoTags),
            Fld(sNote, TString, NoTags) >>
    \* the exported fields of multipart.FileHeader and of time.Time's wrapper
    [] n = "multipart.FileHeader" ->
         << Fld(sFilename, TString, NoTags),
            Fld(sHeader, TMap, NoTags),
            Fld(sSize, TInt, NoTags) >>
    [] n = "Time" -> << Embedded(sTime, TStruct("time.Time"), NoTags) >>
    [] n = "time.Time" -> << Fld(sWall, TInt, NoTags), Fld(sExt, TInt, NoTags) >>

\* the types that implement encoding.TextUnmarshaler: only *Time
ImplementsTextUnmarshaler(t) == t = TPtr(TTime)


(***************************************************************************)
(* Metadata: cache.create, cache.createField, cache.fieldAlias             *)
(***************************************************************************)

NoUnmarshaler ==
  [IsValid |-> FALSE, IsPtr |-> FALSE,
   IsSliceElement |-> FALSE, IsSliceElementPtr |-> FALSE]

\* isTextUnmarshaler(v) for a value v of type t
isTextUnmarshaler(t) ==
  IF ImplementsTextUnmarshaler(t) THEN [NoUnmarshaler EXCEPT !.IsValid = TRUE]
  ELSE IF ImplementsTextUnmarshaler(TPtr(t))
       THEN [NoUnmarshaler EXCEPT !.IsValid = TRUE, !.IsPtr = TRUE]
  ELSE LET t1 == IF Kind(t) = "ptr" THEN t.e ELSE t
       IN IF Kind(t1) = "slice"
          THEN IF Kind(t1.e) = "ptr"
               THEN [NoUnmarshaler EXCEPT !.IsSliceElement = TRUE,
                                          !.IsSliceElementPtr = TRUE,
                                          !.IsValid = ImplementsTextUnmarshaler(t1.e)]
               ELSE [NoUnmarshaler EXCEPT !.IsSliceElement = TRUE,
                                          !.IsValid = ImplementsTextUnmarshaler(TPtr(t1.e))]
          ELSE [NoUnmarshaler EXCEPT !.IsValid = ImplementsTextUnmarshaler(TPtr(t1))]

isFileHeadersPtrs(t) ==
  Kind(t) = "slice" /\ Kind(t.e) = "ptr" /\ t.e.e = TFileHeader
isFileHeaderPtr(t) == Kind(t) = "ptr" /\ t.e = TFileHeader
isFileHeaders(t) == Kind(t) = "slice" /\ t.e = TFileHeader
isFileHeader(t) == t = TFileHeader
isFiles(t) == Kind(t) = "slice" /\ t.e = TFile
isFile(t) == t = TFile

isFileType(t) == isFile(t) \/ isFileHeader(t)

\* underlyingElem; the model has no array types
underlyingElem(t) ==
  LET t1 == IF Kind(t) = "ptr" THEN t.e ELSE t
  IN IF Kind(t1) = "slice"
     THEN IF Kind(t1.e) = "ptr" THEN t1.e.e ELSE t1.e
     ELSE t1

indirectType(t) == IF Kind(t) = "ptr" THEN t.e ELSE t

RECURSIVE hasFiles(_)
hasFiles(t) ==
  LET u == underlyingElem(t)
  IN /\ Kind(u) = "struct"
     /\ \E i \in 1..Len(Decl(u.name)) :
          LET f == underlyingElem(Decl(u.name)[i].typ)
          IN isFileType(f) \/ (Kind(f) = "struct" /\ hasFiles(f))

\* parseTag: the tag up to its first comma
parseTag(tag) == Split(tag, ",")[1]

\* the kinds builtinConverters has an entry for, among the kinds of the model
HasBuiltinConverter(kind) == kind \in {"int", "string"}

\* the locations a `from` tag names, unknown names dropped
RECURSIVE fromLocations(_)
fromLocations(locs) ==
  IF locs = <<>> THEN <<>>
  ELSE (IF nameToLocation(locs[1]) # locationNone
        THEN <<nameToLocation(locs[1])>> ELSE <<>>) \o fromLocations(Tail(locs))

\* the loop of fieldAlias over locationTags, visited in the order ord
RECURSIVE locationTagLoop(_, _, _, _)
locationTagLoop(field, ord, i, jsonAllowed) ==
  IF i > Len(ord)
  THEN [r |-> "none", alias |-> <<>>, locations |-> <<>>, jsonAllowed |-> jsonAllowed]
  ELSE LET tagName == ord[i]
           tag == parseTag(field.tags[tagName])
       IN IF tag # <<>> /\ tag # Dash
          THEN [r |-> "found", alias |-> tag,
                locations |-> <<nameToLocation(tagName)>>, jsonAllowed |-> jsonAllowed]
          ELSE IF tag = Dash /\ tagName = "json"
               THEN locationTagLoop(field, ord, i + 1, FALSE)
          ELSE IF tag = Dash
               THEN [r |-> "dash", alias |-> Dash, locations |-> <<>>,
                     jsonAllowed |-> jsonAllowed]
          ELSE locationTagLoop(field, ord, i + 1, jsonAllowed)

Ignored == [alias |-> Dash, locations |-> <<>>, locationsDefined |-> FALSE]

\* cache.fieldAlias; c is the cache's configuration. getAlias is the field
\* name (no NameFunc is set).
fieldAlias(c, field, parentLocations, parentContainsFiles, ord) ==
  LET l    == locationTagLoop(field, ord, 1, TRUE)
      tag  == field.tags.name
      lTag == field.tags.from
      named(t) == IF t = <<>> THEN field.name ELSE t
      anon(a) == IF field.anon THEN <<>> ELSE a
  IN IF l.r = "dash" THEN Ignored
     ELSE IF l.r = "found"
          THEN [alias |-> anon(l.alias), locations |-> l.locations,
                locationsDefined |-> TRUE]
     ELSE IF tag # Dash /\ lTag # <<>>
          THEN LET locs == fromLocations(lTag)
                   locations == IF locs # <<>> THEN locs
                                ELSE IF parentLocations = <<>> THEN <<LocationJSON>>
                                ELSE parentLocations
               IN [alias |-> anon(named(tag)), locations |-> locations,
                   locationsDefined |-> TRUE]
     ELSE IF tag # Dash /\ lTag = <<>>
          THEN IF parentLocations # <<>>
               THEN [alias |-> anon(named(tag)), locations |-> parentLocations,
                     locationsDefined |-> TRUE]
               ELSE IF isFileType(underlyingElem(field.typ))
               THEN [alias |-> anon(named(tag)), locations |-> <<LocationFile>>,
                     locationsDefined |-> TRUE]
               ELSE IF parentContainsFiles
               THEN [alias |-> anon(named(tag)), locations |-> <<LocationForm>>,
                     locationsDefined |-> TRUE]
               ELSE IF c.defaultLocation # locationNone
               THEN IF c.defaultLocation = LocationJSON /\ ~l.jsonAllowed
                    THEN Ignored
                    ELSE [alias |-> anon(named(tag)),
                          locations |-> <<c.defaultLocation>>,
                          locationsDefined |-> FALSE]
               ELSE IF l.jsonAllowed
               THEN [alias |-> anon(named(tag)), locations |-> <<LocationJSON>>,
                     locationsDefined |-> FALSE]
               ELSE [alias |-> anon(named(tag)), locations |-> <<>>,
                     locationsDefined |-> TRUE]
     ELSE Ignored

\* structInfo.get: the first field whose alias folds to the given alias
hasAlias(fields, alias) == \E i \in 1..Len(fields) : EqualFold(fields[i].alias, alias)

getField(fields, alias) ==
  fields[CHOOSE i \in 1..Len(fields) :
           /\ EqualFold(fields[i].alias, alias)
           /\ \A j \in 1..(i - 1) : ~EqualFold(fields[j].alias, alias)]

\* cache.containsLocation; cm is the cache map c.m, keyed by struct type name
RECURSIVE containsLocation(_, _, _)
containsLocation(cm, fields, location) ==
  \E i \in 1..Len(fields) :
    \/ containsInt(fields[i].locations, location)
    \/ LET t  == fields[i].typ
           t1 == IF fields[i].isSliceOfStructs THEN t.e ELSE t
           t2 == IF Kind(t1) = "ptr" THEN t1.e ELSE t1
       IN /\ Kind(t2) = "struct"
          /\ t2.name \in DOMAIN cm
          /\ containsLocation(cm, cm[t2.name].fields, location)

\* fieldsAliases(getWithLocation(fields, location))
RECURSIVE fieldsAliases(_, _)
fieldsAliases(fields, location) ==
  IF fields = <<>> THEN <<>>
  ELSE (IF /\ containsInt(fields[1].locations, location)
           /\ fields[1].canonicalAlias = fields[1].alias
        THEN <<fields[1].alias>> ELSE <<>>) \o fieldsAliases(Tail(fields), location)

\* the second loop of cache.create: the fields of the embedded structs are
\* promoted unless another embedded struct, or the struct itself with what was
\* promoted so far, has the alias
\* the promotion with `others` holding the struct and the embedded structs
\* declared before the i-th only: the first declared of two colliding fields
\* is kept
RECURSIVE promoteFirstKept(_, _, _, _)
promoteFirstKept(fields, anons, i, j) ==
  IF i > Len(anons) THEN fields
  ELSE IF j > Len(anons[i].fields) THEN promoteFirstKept(fields, anons, i + 1, 1)
  ELSE LET f   == anons[i].fields[j]
           hit == \/ hasAlias(fields, f.alias)
                  \/ \E h \in 1..(i - 1) : hasAlias(anons[h].fields, f.alias)
       IN promoteFirstKept(IF hit THEN fields ELSE Append(fields, f), anons, i, j + 1)

RECURSIVE promote(_, _, _, _)
promote(fields, anons, i, j) ==
  IF i > Len(anons) THEN fields
  ELSE IF j > Len(anons[i].fields) THEN promote(fields, anons, i + 1, 1)
  ELSE LET f   == anons[i].fields[j]
           hit == \/ hasAlias(fields, f.alias)
                  \/ \E h \in 1..Len(anons) : h # i /\ hasAlias(anons[h].fields, f.alias)
       IN promote(IF hit THEN fields ELSE Append(fields, f), anons, i, j + 1)

RECURSIVE create(_, _, _, _, _, _)
RECURSIVE createField(_, _, _, _, _, _, _)
RECURSIVE createLoop(_, _, _, _, _, _, _)

\* cache.createField: ok is false for a field the decoder ignores; cm is c.m
\* after the call
createField(c, cm, field, parentAlias, parentLocations, parentContainsFiles, ord) ==
  The({
    LET ft0 == indirectType(field.typ)
        isSlice == Kind(ft0) = "slice"
        ft == IF isSlice THEN indirectType(ft0.e) ELSE ft0
        isFileT == isFile(ft)
        isStruct == Kind(ft) = "struct"
        info == [typ |-> field.typ, name |-> field.name, alias |-> a.alias,
                 locations |-> a.locations, locationsDefined |-> a.locationsDefined,
                 canonicalAlias |-> IF parentAlias # <<>>
                                    THEN Join(parentAlias, ".", a.alias)
                                    ELSE a.alias,
                 unmarshalerInfo |-> isTextUnmarshaler(field.typ),
                 isSliceOfStructs |-> isSlice /\ isStruct,
                 isAnonymous |-> field.anon]
    IN IF a.alias = Dash THEN [ok |-> FALSE, cm |-> cm]
       ELSE IF ~isStruct /\ ~isFileT
            THEN IF ft \notin c.regconv /\ ~HasBuiltinConverter(Kind(ft))
                 THEN [ok |-> FALSE, cm |-> cm]
                 ELSE [ok |-> TRUE, f |-> info, cm |-> cm]
       ELSE IF ~isFileT
            THEN The({ [ok |-> TRUE, f |-> info,
                        cm |-> [n \in DOMAIN r.cm \cup {ft.name} |->
                                  IF n = ft.name THEN r.info ELSE r.cm[n]]]
                       : r \in {create(c, cm, ft, <<>>, <<>>, ord)} })
       ELSE [ok |-> TRUE, f |-> info, cm |-> cm]
    : a \in {fieldAlias(c, field, parentLocations, parentContainsFiles, ord)} })

\* the first loop of cache.create, from field i on
createLoop(c, st, t, parentAlias, parentLocations, ord, i) ==
  IF i > Len(Decl(t.name)) THEN st
  ELSE createLoop(c,
         The({ IF ~r.ok THEN [st EXCEPT !.cm = r.cm]
               ELSE IF Kind(indirectType(r.f.typ)) = "struct" /\ r.f.isAnonymous
               THEN The({ [fields |-> Append(st.fields, r.f),
                           anons |-> Append(st.anons, a.info),
                           cm |-> a.cm]
                          : a \in {create(c, r.cm, indirectType(r.f.typ),
                                          r.f.canonicalAlias, r.f.locations, ord)} })
               ELSE [st EXCEPT !.fields = Append(@, r.f), !.cm = r.cm]
               : r \in {createField(c, st.cm, Decl(t.name)[i], parentAlias,
                                    parentLocations, hasFiles(t), ord)} }),
         t, parentAlias, parentLocations, ord, i + 1)

\* cache.create: the structInfo of struct type t, and c.m after the call
create(c, cm, t, parentAlias, parentLocations, ord) ==
  The({ The({
    [info |-> [containsPath   |-> containsLocation(st.cm, fields, LocationPath),
               containsQuery  |-> containsLocation(st.cm, fields, LocationQuery),
               containsForm   |-> containsLocation(st.cm, fields, LocationForm),
               containsFile   |-> containsLocation(st.cm, fields, LocationFile),
               containsHeader |-> containsLocation(st.cm, fields, LocationHeader),
               containsJSON   |-> containsLocation(st.cm, fields, LocationJSON),
               fieldsJSON     |-> fieldsAliases(fields, LocationJSON),
               fields         |-> fields],
     cm |-> st.cm]
    : fields \in {promote(st.fields, st.anons, 1, 1)} })
    : st \in {createLoop(c, [fields |-> <<>>, anons |-> <<>>, cm |-> cm],
                         t, parentAlias, parentLocations, ord, 1)} })

\* cache.get: the cached structInfo, created and stored when missing
cacheGet(c, cm, t, ord) ==
  IF t.name \in DOMAIN cm THEN [info |-> cm[t.name], cm |-> cm]
  ELSE The({ [info |-> r.info,
               cm |-> [n \in DOMAIN r.cm \cup {t.name} |->
                         IF n = t.name THEN r.info ELSE r.cm[n]]]
             : r \in {create(c, cm, t, <<>>, <<>>, ord)} })

(***************************************************************************)
(* cache.splitPath and cache.parsePath                                     *)
(***************************************************************************)

invalidPath == [kind |-> "invalidPath"]

\* the loop of splitPath under the bracketed grammar, at the i-th character;
\* st holds parts, runes, isFirstLevel and opened
RECURSIVE splitLoop(_, _, _, _)
splitLoop(c, path, i, st) ==
  IF i > Len(path)
  THEN IF st.opened THEN [ok |-> FALSE]
       ELSE [ok |-> TRUE, parts |-> IF st.parts = <<>> THEN <<path>> ELSE st.parts]
  ELSE LET r == path[i]
           n == Len(path)
       IN IF IsSpace(r) THEN [ok |-> FALSE]
          ELSE IF r = c.sepLeft \/ r = c.sepRight \/ r = c.sep
          THEN IF i = 1 \/ path[i - 1] = r THEN [ok |-> FALSE]
               ELSE IF i = n /\ path[i] # c.sepRight THEN [ok |-> FALSE]
               ELSE IF r = c.sepLeft
               THEN IF ~st.isFirstLevel /\ c.sep # NUL /\ path[i - 1] # c.sep
                    THEN [ok |-> FALSE]
                    ELSE IF st.runes = <<>> /\ (i # n - 1 \/ path[i + 1] # c.sepRight)
                    THEN [ok |-> FALSE]
                    ELSE IF st.opened THEN [ok |-> FALSE]
                    ELSE splitLoop(c, path, i + 1,
                                   [parts |-> Append(st.parts, st.runes), runes |-> <<>>,
                                    isFirstLevel |-> FALSE, opened |-> TRUE])
               ELSE IF r = c.sepRight
               THEN IF ~st.opened THEN [ok |-> FALSE]
                    ELSE IF i = n /\ st.runes # <<>>
                    THEN splitLoop(c, path, i + 1,
                                   [st EXCEPT !.parts = Append(@, st.runes),
                                              !.runes = <<>>, !.opened = FALSE])
                    ELSE splitLoop(c, path, i + 1, [st EXCEPT !.opened = FALSE])
               ELSE IF ~st.opened /\ ~st.isFirstLevel /\ path[i - 1] # c.sepRight
                    THEN [ok |-> FALSE]
                    ELSE IF ~st.opened /\ path[i + 1] # c.sepLeft THEN [ok |-> FALSE]
                    ELSE IF st.opened
                    THEN splitLoop(c, path, i + 1, [st EXCEPT !.runes = Append(@, r)])
                    ELSE splitLoop(c, path, i + 1, st)
          ELSE IF ~st.isFirstLevel /\ ~st.opened THEN [ok |-> FALSE]
          ELSE splitLoop(c, path, i + 1, [st EXCEPT !.runes = Append(@, r)])

\* splitPath with the separator taken for an ordinary character under the
\* bracketed grammar
splitPathPlainSeparator(c, path) ==
  IF c.sepLeft # NUL /\ c.sepRight # NUL
  THEN splitLoop([c EXCEPT !.sep = NUL], path, 1,
                 [parts |-> <<>>, runes |-> <<>>,
                  isFirstLevel |-> TRUE, opened |-> FALSE])
  ELSE [ok |-> TRUE, parts |-> Split(path, c.sep)]

\* cache.splitPath: ok is false for invalidPath
splitPath(c, path) ==
  IF c.sepLeft # NUL /\ c.sepRight # NUL
  THEN splitLoop(c, path, 1, [parts |-> <<>>, runes |-> <<>>,
                              isFirstLevel |-> TRUE, opened |-> FALSE])
  ELSE [ok |-> TRUE, parts |-> Split(path, c.sep)]

NoErr == [kind |-> "nil"]

LocationError(key, allowed, location) ==
  [kind |-> "LocationError", Key |-> key,
   AllowedLocations |-> allowed, Location |-> location]

\* the loop of parsePath at token i of keys; t is the current type, st holds
\* parts, path, lastDefinedLocations and the last field
RECURSIVE parseLoop(_, _, _, _, _, _, _)
parseLoop(c, cm, p, keys, t, i, st) ==
  IF i > Len(keys)
  THEN LET allowed == IF st.lastDefinedLocations # <<>>
                      THEN st.lastDefinedLocations ELSE st.field.locations
       IN IF ~containsInt(allowed, st.location)
          THEN [err |-> LocationError(p, allowed, st.location)]
          ELSE [err |-> NoErr,
                parts |-> Append(st.parts, [path |-> st.path,
                                            field |-> st.field.name, index |-> -1])]
  ELSE IF Kind(t) # "struct" THEN [err |-> invalidPath]
  ELSE The({
         IF ~hasAlias(struc.fields, keys[i]) THEN [err |-> invalidPath]
         ELSE The({
           LET last  == IF field.locationsDefined THEN field.locations
                        ELSE st.lastDefinedLocations
               path  == Append(st.path, field.name)
           IN IF /\ field.isSliceOfStructs
                 /\ ~isFileHeadersPtrs(field.typ)
                 /\ ~isFileHeaders(field.typ)
                 /\ (~field.unmarshalerInfo.IsValid
                     \/ field.unmarshalerInfo.IsSliceElement)
              THEN IF i + 1 > Len(keys) THEN [err |-> invalidPath]
                   ELSE IF ~ParseInt(keys[i + 1]).ok THEN [err |-> invalidPath]
                   ELSE LET t1 == indirectType(field.typ)
                            t2 == IF Kind(t1) = "slice" THEN indirectType(t1.e) ELSE t1
                        IN parseLoop(c, cm, p, keys, t2, i + 2,
                             [st EXCEPT
                                !.parts = Append(@, [path |-> path,
                                                     field |-> field.name,
                                                     index |-> ParseInt(keys[i + 1]).v]),
                                !.path = <<>>,
                                !.lastDefinedLocations = last,
                                !.field = field])
              ELSE parseLoop(c, cm, p, keys, indirectType(field.typ), i + 1,
                             [st EXCEPT !.path = path,
                                        !.lastDefinedLocations = last,
                                        !.field = field])
           : field \in {getField(struc.fields, keys[i])} })
         : struc \in {cacheGet(c, cm, t, CHOOSE o \in TagOrders : TRUE).info} })

\* cache.parsePath: err is NoErr and parts the path parts, or err is
\* invalidPath or a LocationError
parsePath(c, cm, p, t, location) ==
  LET keys == splitPath(c, p)
  IN IF ~keys.ok THEN [err |-> invalidPath]
     ELSE parseLoop(c, cm, p, keys.parts, t, 1,
                    [parts |-> <<>>, path |-> <<>>, lastDefinedLocations |-> <<>>,
                     field |-> [name |-> <<>>, locations |-> <<>>],
                     location |-> location])

(***************************************************************************)
(* Values: what reflect.Value reads and writes in the target               *)
(*                                                                         *)
(* An int is an integer, a string a sequence of characters, a struct a     *)
(* function of its field names, a pointer nil or an allocated object, a    *)
(* slice nil or a backing array with its elements. Allocations are         *)
(* numbered, so that two reflect.Values are equal exactly when they        *)
(* designate the same memory.                                              *)
(***************************************************************************)

NilPtr == [nil |-> TRUE]
PtrTo(id, v) == [nil |-> FALSE, id |-> id, v |-> v]
NilSlice == [isnil |-> TRUE, arr |-> 0, elems |-> <<>>]
SliceOf(id, elems) == [isnil |-> FALSE, arr |-> id, elems |-> elems]

FieldNames(n) == {Decl(n)[i].name : i \in 1..Len(Decl(n))}
FieldDecl(n, name) == Decl(n)[CHOOSE i \in 1..Len(Decl(n)) : Decl(n)[i].name = name]

\* reflect.Zero(t)
RECURSIVE Zero(_)
Zero(t) ==
  CASE Kind(t) = "int"    -> 0
    [] Kind(t) = "string" -> <<>>
    [] Kind(t) = "ptr"    -> NilPtr
    [] Kind(t) = "slice"  -> NilSlice
    [] Kind(t) = "struct" -> [f \in FieldNames(t.name) |-> Zero(FieldDecl(t.name, f).typ)]
    [] OTHER              -> [nil |-> TRUE]

\* a place in the target: the hops from the root struct
FieldHop(name) == [h |-> "field", n |-> name]
ElemHop == [h |-> "elem"]
IndexHop(i) == [h |-> "index", i |-> i]

RECURSIVE ValueAt(_, _)
ValueAt(v, loc) ==
  IF loc = <<>> THEN v
  ELSE CASE loc[1].h = "field" -> ValueAt(v[loc[1].n], Tail(loc))
         [] loc[1].h = "elem"  -> ValueAt(v.v, Tail(loc))
         [] loc[1].h = "index" -> ValueAt(v.elems[loc[1].i + 1], Tail(loc))

\* v.Set(x) for the value at loc
RECURSIVE SetAt(_, _, _)
SetAt(v, loc, x) ==
  IF loc = <<>> THEN x
  ELSE CASE loc[1].h = "field" ->
              [v EXCEPT ![loc[1].n] = SetAt(@, Tail(loc), x)]
         [] loc[1].h = "elem"  ->
              [v EXCEPT !.v = SetAt(@, Tail(loc), x)]
         [] loc[1].h = "index" ->
              [v EXCEPT !.elems[loc[1].i + 1] = SetAt(@, Tail(loc), x)]

\* the memory a reflect.Value designates: the enclosing allocation (the root
\* struct, an object behind a pointer, an element of a backing array) and the
\* fields walked inside it
RECURSIVE AddrFrom(_, _, _)
AddrFrom(v, loc, a) ==
  IF loc = <<>> THEN a
  ELSE CASE loc[1].h = "field" ->
              AddrFrom(v[loc[1].n], Tail(loc), [a EXCEPT !.off = Append(@, loc[1].n)])
         [] loc[1].h = "elem"  ->
              AddrFrom(v.v, Tail(loc), [kind |-> "obj", id |-> v.id, i |-> 0, off |-> <<>>])
         [] loc[1].h = "index" ->
              AddrFrom(v.elems[loc[1].i + 1], Tail(loc),
                       [kind |-> "arr", id |-> v.arr, i |-> loc[1].i, off |-> <<>>])

Addr(target, loc) == AddrFrom(target, loc, [kind |-> "root", id |-> 0, i |-> 0, off |-> <<>>])

\* the fields v.FieldByName(name) walks: the field itself, or the way to it
\* through embedded structs
RECURSIVE fieldHops(_, _)
fieldHops(n, name) ==
  IF name \in FieldNames(n) THEN <<name>>
  ELSE LET D == Decl(n)
           emb == {i \in 1..Len(D) :
                     /\ D[i].anon
                     /\ Kind(D[i].typ) = "struct"
                     /\ fieldHops(D[i].typ.name, name) # <<>>}
       IN IF emb = {} THEN <<>>
          ELSE LET i == CHOOSE i \in emb : \A j \in emb : i <= j
               IN <<D[i].name>> \o fieldHops(D[i].typ.name, name)

\* reflect.Value.CanSet for a field: an exported name
Exported(name) == IsUpper(name[1])

Put(f, k, v) == [x \in DOMAIN f \cup {k} |-> IF x = k THEN v ELSE f[x]]
EmptyMap == [x \in {} |-> 0]

(***************************************************************************)
(* Converters                                                              *)
(***************************************************************************)

\* builtinConverters[kind](s): ok is false for the invalid reflect.Value
builtinConvert(kind, s) ==
  CASE kind = "int"    -> [ok |-> ParseInt(s).ok, v |-> ParseInt(s).v]
    [] kind = "string" -> [ok |-> TRUE, v |-> s]

\* The converter the application registers for IDs: the whole value must be
\* one integer, which becomes the only element; id is the new backing array.
registeredConvert(t, s, id) ==
  [ok |-> ParseInt(s).ok, v |-> SliceOf(id, <<ParseInt(s).v>>)]

\* (*Time).UnmarshalText: the empty text is the zero Time, other text must
\* parse
TimeOf(n) == (sTime :> (sWall :> n @@ sExt :> 0))

UnmarshalText(t, s) ==
  IF s = <<>> THEN [ok |-> TRUE, v |-> TimeOf(0)]
  ELSE IF \A i \in 1..Len(s) : s[i] \in Digits
       THEN [ok |-> TRUE, v |-> TimeOf(ParseInt(s).v)]
  ELSE [ok |-> FALSE, v |-> TimeOf(0)]

ConversionError(key, t, index) ==
  [kind |-> "ConversionError", Key |-> key, Type |-> t, Index |-> index]

ConverterNotFound == [kind |-> "error", msg |-> "converter not found"]

Panic == [kind |-> "panic"]

(***************************************************************************)
(* Decoder.decode                                                          *)
(***************************************************************************)

\* v = v.FieldByName(name): w holds the target, the allocation counter, the
\* place loc of v, its type t and whether v can be set
RECURSIVE walkHops(_, _)
walkHops(w, hops) ==
  IF hops = <<>> THEN w
  ELSE walkHops([w EXCEPT !.loc = Append(@, FieldHop(hops[1])),
                          !.t = FieldDecl(w.t.name, hops[1]).typ,
                          !.canSet = @ /\ Exported(hops[1])],
                Tail(hops))

\* if v is a pointer: allocate it when nil, then v = v.Elem()
indirect(w) ==
  IF Kind(w.t) # "ptr" THEN w
  ELSE IF ValueAt(w.target, w.loc).nil
       THEN [w EXCEPT !.target = SetAt(@, w.loc, PtrTo(w.nextId, Zero(w.t.e))),
                      !.nextId = @ + 1,
                      !.loc = Append(@, ElemHop),
                      !.t = w.t.e]
  ELSE [w EXCEPT !.loc = Append(@, ElemHop), !.t = w.t.e]

\* the loop over parts[0].path at the head of decode
RECURSIVE walkPath(_, _)
walkPath(w, path) ==
  IF path = <<>> THEN w
  ELSE walkPath(The({ walkHops(w1, fieldHops(w1.t.name, path[1]))
                      : w1 \in {indirect(w)} }),
                Tail(path))

\* an element of a sequence field: *elemT when the elements are pointers
wrapItem(isPtrElem, v, id) == IF isPtrElem THEN PtrTo(id, v) ELSE v

\* the parts of a comma-joined value; r holds err, items and the allocation
\* counter
\* a value that is never split: the conversion error of the whole value
splitItemsNever(d, vals, elemT, isPtrElem, path, key, r) ==
  [r EXCEPT !.err = ConversionError(path, elemT, key)]

RECURSIVE splitItems(_, _, _, _, _, _, _)
splitItems(d, vals, elemT, isPtrElem, path, key, r) ==
  IF vals = <<>> THEN r
  ELSE LET value == vals[1]
           item  == IF elemT \in d.cache.regconv
                    THEN registeredConvert(elemT, value, r.nextId)
                    ELSE builtinConvert(Kind(elemT), value)
       IN IF value = <<>>
          THEN splitItems(d, Tail(vals), elemT, isPtrElem, path, key,
                          IF d.zeroEmpty
                          THEN [r EXCEPT !.items = Append(@, Zero(elemT))] ELSE r)
          ELSE IF item.ok
          THEN splitItems(d, Tail(vals), elemT, isPtrElem, path, key,
                          [r EXCEPT !.items = Append(@, wrapItem(isPtrElem, item.v, r.nextId + 1)),
                                    !.nextId = @ + 2])
          ELSE [r EXCEPT !.err = ConversionError(path, elemT, key)]

\* the loop over values of a sequence field, at values[key + 1]
RECURSIVE sliceItems(_, _, _, _, _, _, _, _, _)
sliceItems(d, values, t, elemT, isPtrElem, m, path, key, r) ==
  IF key >= Len(values) THEN r
  ELSE LET value == values[key + 1]
           item  == IF elemT \in d.cache.regconv
                    THEN registeredConvert(elemT, value, r.nextId)
                    ELSE builtinConvert(Kind(elemT), value)
           u     == UnmarshalText(elemT, value)
       IN IF value = <<>>
          THEN sliceItems(d, values, t, elemT, isPtrElem, m, path, key + 1,
                          IF d.zeroEmpty
                          THEN [r EXCEPT !.items = Append(@, Zero(elemT))] ELSE r)
          ELSE IF m.IsValid
          THEN IF ~u.ok THEN [r EXCEPT !.err = ConversionError(path, t, key)]
               ELSE sliceItems(d, values, t, elemT, isPtrElem, m, path, key + 1,
                               [r EXCEPT !.items = Append(@, wrapItem(m.IsSliceElementPtr,
                                                                      u.v, r.nextId)),
                                         !.nextId = @ + 1])
          ELSE IF item.ok
          THEN sliceItems(d, values, t, elemT, isPtrElem, m, path, key + 1,
                          [r EXCEPT !.items = Append(@, wrapItem(isPtrElem, item.v, r.nextId + 1)),
                                    !.nextId = @ + 2])
          ELSE IF ContainsChar(value, ",")
          THEN The({ IF r1.err # NoErr THEN r1
                     ELSE sliceItems(d, values, t, elemT, isPtrElem, m, path, key + 1, r1)
                     : r1 \in {splitItems(d, Split(value, ","), elemT, isPtrElem,
                                          path, key, r)} })
          ELSE [r EXCEPT !.err = ConversionError(path, elemT, key)]

\* the branch of decode for a field that receives values; w.loc is the field
\* v, w.t its type t
decodeValues(d, w, path, values) ==
  LET t == w.t
      hasConv == t \in d.cache.regconv
      m == isTextUnmarshaler(t)
      done(target, nextId, err) ==
        [target |-> target, nextId |-> nextId, err |-> err]
  IN IF ~hasConv /\ Kind(t) = "slice" /\ m.IsSliceElement
     THEN LET isPtrElem == Kind(t.e) = "ptr"
              elemT == IF isPtrElem THEN t.e.e ELSE t.e
          IN IF elemT \notin d.cache.regconv /\ ~HasBuiltinConverter(Kind(elemT))
             THEN done(w.target, w.nextId, ConverterNotFound)
             ELSE The({ IF r.err # NoErr THEN done(w.target, w.nextId, r.err)
                        ELSE done(SetAt(w.target, w.loc, SliceOf(r.nextId, r.items)),
                                  r.nextId + 1, NoErr)
                        : r \in {sliceItems(d, values, t, elemT, isPtrElem, m, path, 0,
                                            [err |-> NoErr, items |-> <<>>,
                                             nextId |-> w.nextId])} })
     ELSE LET val == values[Len(values)]
          IN IF hasConv
             THEN LET value == registeredConvert(t, val, w.nextId)
                  IN IF value.ok
                     THEN done(SetAt(w.target, w.loc, value.v), w.nextId + 1, NoErr)
                     ELSE done(w.target, w.nextId, ConversionError(path, t, -1))
             ELSE IF m.IsValid
             THEN LET u == UnmarshalText(t, val)
                  IN IF ~u.ok THEN done(w.target, w.nextId, ConversionError(path, t, -1))
                     ELSE IF m.IsPtr
                     THEN done(SetAt(w.target, w.loc, u.v), w.nextId, NoErr)
                     ELSE done(w.target, w.nextId, NoErr)
             ELSE IF val = <<>>
             THEN IF d.zeroEmpty
                  THEN done(SetAt(w.target, w.loc, Zero(t)), w.nextId, NoErr)
                  ELSE done(w.target, w.nextId, NoErr)
             ELSE IF HasBuiltinConverter(Kind(t))
             THEN LET value == builtinConvert(Kind(t), val)
                  IN IF value.ok
                     THEN done(SetAt(w.target, w.loc, value.v), w.nextId, NoErr)
                     ELSE done(w.target, w.nextId, ConversionError(path, t, -1))
             ELSE done(w.target, w.nextId, ConverterNotFound)

\* a *multipart.FileHeader of the request and the struct it points to
FileHeaderValue(h) == (sFilename :> h.Filename @@ sHeader :> Zero(TMap) @@ sSize :> 0)
FileHeaderPtr(h) == PtrTo(h.id, FileHeaderValue(h))

\* the file headers fs as the elements of a sequence, pointers or values
FileHeaders(fs, ptrs) ==
  [i \in 1..Len(fs) |-> IF ptrs THEN FileHeaderPtr(fs[i]) ELSE FileHeaderValue(fs[i])]

\* the error of (*multipart.FileHeader).Open
OpenError(h) == [kind |-> "error", msg |-> "open", file |-> h.Filename]

\* a multipart.File that Open has returned
FileOf(h) == [file |-> h.id]

\* file.Close() on what a failed Open has returned with its error: a nil
\* File makes the call panic, a File that holds a nil *os.File makes Close
\* return an error that decode drops
closeFailed(h) == IF h.open = "nil" THEN Panic ELSE OpenError(h)

\* the loop of decode over fs for a sequence of files, at fs[i]; files are
\* the files opened so far
RECURSIVE openFiles(_, _, _)
openFiles(fs, i, files) ==
  IF i > Len(fs)
  THEN [err |-> NoErr, items |-> [j \in 1..Len(files) |-> FileOf(files[j])],
        files |-> [id \in {files[j].id : j \in 1..Len(files)} |-> "open"]]
  ELSE IF fs[i].open = "file" THEN openFiles(fs, i + 1, Append(files, fs[i]))
  ELSE [err |-> closeFailed(fs[i]), items |-> <<>>,
        files |-> [id \in {files[j].id : j \in 1..Len(files)} |-> "closed"]]

\* the branch of decode for a field that receives files
decodeFiles(w, fs) ==
  LET t == w.t
      done(target, nextId) == [target |-> target, nextId |-> nextId, err |-> NoErr,
                               files |-> EmptyMap]
  IN IF isFileHeadersPtrs(t)
     THEN done(SetAt(w.target, w.loc, SliceOf(w.nextId, FileHeaders(fs, TRUE))),
               w.nextId + 1)
     ELSE IF isFileHeaderPtr(t)
     THEN done(SetAt(w.target, w.loc, FileHeaderPtr(fs[1])), w.nextId)
     ELSE IF isFileHeaders(t)
     THEN done(SetAt(w.target, w.loc, SliceOf(w.nextId, FileHeaders(fs, FALSE))),
               w.nextId + 1)
     ELSE IF isFileHeader(t)
     THEN done(SetAt(w.target, w.loc, FileHeaderValue(fs[1])), w.nextId)
     ELSE IF isFiles(t)
     THEN The({ IF o.err = NoErr
                THEN [target |-> SetAt(w.target, w.loc, SliceOf(w.nextId, o.items)),
                      nextId |-> w.nextId + 1, err |-> NoErr, files |-> o.files]
                ELSE [target |-> w.target, nextId |-> w.nextId, err |-> o.err,
                      files |-> o.files]
                : o \in {openFiles(fs, 1, <<>>)} })
     ELSE IF isFile(t)
     THEN IF fs[1].open = "file"
          THEN [target |-> SetAt(w.target, w.loc, FileOf(fs[1])), nextId |-> w.nextId,
                err |-> NoErr, files |-> (fs[1].id :> "open")]
          ELSE [target |-> w.target, nextId |-> w.nextId, err |-> closeFailed(fs[1]),
                files |-> EmptyMap]
     ELSE done(w.target, w.nextId)

\* Decoder.decode(v, path, parts, values, fs, lens): st holds the target, lens
\* and the allocation counter; v is the value at loc, of type t
RECURSIVE decode(_, _, _, _, _, _, _, _)
decode(d, st, loc, t, path, parts, values, fs) ==
  The({ The({
    IF ~w0.canSet
    THEN [target |-> w0.target, lens |-> st.lens, nextId |-> w0.nextId, err |-> NoErr,
          files |-> EmptyMap]
    ELSE IF Len(parts) > 1
    THEN The({
           LET memo  == IF a \in DOMAIN st.lens THEN st.lens[a] ELSE EmptyMap
               index == parts[1].index
               hit   == index \in DOMAIN memo
               idx   == IF hit THEN memo[index] ELSE Len(v.elems)
           IN decode(d,
                     [target |-> IF hit THEN w.target
                                 ELSE SetAt(w.target, w.loc,
                                            SliceOf(w.nextId,
                                                    Append(v.elems, Zero(w.t.e)))),
                      lens |-> Put(st.lens, a, Put(memo, index, idx)),
                      nextId |-> IF hit THEN w.nextId ELSE w.nextId + 1,
                      err |-> NoErr],
                     Append(w.loc, IndexHop(idx)), w.t.e, path, Tail(parts), values, fs)
           : a \in {Addr(w.target, w.loc)}, v \in {ValueAt(w.target, w.loc)} })
    ELSE IF fs # <<>>
    THEN The({ [target |-> r.target, lens |-> st.lens, nextId |-> r.nextId,
                err |-> r.err, files |-> r.files]
               : r \in {decodeFiles(w, fs)} })
    ELSE IF values # <<>>
    THEN The({ [target |-> r.target, lens |-> st.lens, nextId |-> r.nextId,
                err |-> r.err, files |-> EmptyMap]
               : r \in {decodeValues(d, w, path, values)} })
    ELSE [target |-> w.target, lens |-> st.lens, nextId |-> w.nextId, err |-> NoErr,
          files |-> EmptyMap]
    : w \in {IF Kind(w0.t) = "ptr" /\ fs = <<>> THEN indirect(w0) ELSE w0} })
    : w0 \in {walkPath([target |-> st.target, nextId |-> st.nextId, loc |-> loc,
                        t |-> t, canSet |-> TRUE], parts[1].path)} })

(***************************************************************************)
(* JSON bodies: flatten, and encoding/json decoding into the target        *)
(***************************************************************************)

JNum(n) == [j |-> "num", n |-> n]
JStr(x) == [j |-> "str", s |-> x]
JObj(f) == [j |-> "obj", m |-> f]
JArr(a) == [j |-> "arr", a |-> a]
JNull   == [j |-> "null"]

\* fmt.Sprint of a decoded JSON scalar
Sprint(v) == IF v.j = "num" THEN SprintInt(v.n) ELSE v.s

\* reflect.TypeOf(v).Kind() panics for a nil interface: a JSON null
RECURSIVE flattenPanics(_)
flattenPanics(v) ==
  CASE v.j = "null" -> TRUE
    [] v.j = "obj"  -> \E k \in DOMAIN v.m : flattenPanics(v.m[k])
    [] v.j = "arr"  -> \E i \in 1..Len(v.a) : flattenPanics(v.a[i])
    [] OTHER        -> FALSE

RECURSIVE scalarsOf(_)
scalarsOf(a) ==
  IF a = <<>> THEN <<>>
  ELSE (IF a[1].j = "obj" THEN <<>> ELSE <<Sprint(a[1])>>) \o scalarsOf(Tail(a))

\* the entries <<key, values>> flatten makes of the JSON object m
RECURSIVE flattenEntries(_)
flattenEntries(m) ==
  UNION { LET v == m[k]
          IN CASE v.j = "obj" ->
                    { <<Join(k, ".", e[1]), e[2]>> : e \in flattenEntries(v.m) }
               [] v.j = "arr" ->
                    UNION { IF v.a[i].j = "obj"
                            THEN { <<Join(Join(k, ".", SprintInt(i - 1)), ".", e[1]), e[2]>> :
                                     e \in flattenEntries(v.a[i].m) }
                            ELSE {} : i \in 1..Len(v.a) }
                    \cup (IF scalarsOf(v.a) # <<>> THEN {<<k, scalarsOf(v.a)>>} ELSE {})
               [] OTHER -> {<<k, <<Sprint(v)>>>>}
        : k \in DOMAIN m }

\* flatten(m): from flat key to values
flatten(m) ==
  LET es == flattenEntries(m)
  IN [k \in {e[1] : e \in es} |-> (CHOOSE e \in es : e[1] = k)[2]]

\* the name encoding/json knows a field by: its json tag, else its name
jsonName(f) == IF parseTag(f.tags.json) # <<>> THEN parseTag(f.tags.json) ELSE f.name

\* json.Decoder.Decode into a value of type t: object members are matched to
\* fields by name, case-insensitively, unknown members are skipped, null
\* leaves the value alone; ok is false when a member does not fit its field
RECURSIVE jsonDecode(_, _, _)
jsonDecode(t, cur, v) ==
  CASE v.j = "null" -> [ok |-> TRUE, v |-> cur]
    [] Kind(t) = "int" /\ v.j = "num" -> [ok |-> TRUE, v |-> v.n]
    [] Kind(t) = "string" /\ v.j = "str" -> [ok |-> TRUE, v |-> v.s]
    [] Kind(t) = "struct" /\ v.j = "obj" ->
         LET D == Decl(t.name)
             hit(f) == {k \in DOMAIN v.m : EqualFold(k, jsonName(f))}
             r(f) == jsonDecode(f.typ, cur[f.name],
                                v.m[IF jsonName(f) \in hit(f) THEN jsonName(f)
                                    ELSE CHOOSE k \in hit(f) : TRUE])
             used(f) == f.tags.json # Dash /\ hit(f) # {}
         IN [ok |-> \A i \in 1..Len(D) : used(D[i]) => r(D[i]).ok,
             v  |-> [n \in FieldNames(t.name) |->
                       IF used(FieldDecl(t.name, n)) THEN r(FieldDecl(t.name, n)).v
                       ELSE cur[n]]]
    [] OTHER -> [ok |-> FALSE, v |-> cur]

(***************************************************************************)
(* Decoder.merge, Decoder.checkFiles                                       *)
(***************************************************************************)

UnknownKeyError(k) == [kind |-> "UnknownKeyError", Key |-> k]

\* one iteration of the loop of merge, for the key pk of the source map mm;
\* st holds m, ps and errors, whether merge has returned (stop) and whether
\* it has panicked
mergeKey(d, st, mm, pk, t, location) ==
  IF Len(pk) < 2 THEN [st EXCEPT !.panic = TRUE]
  ELSE LET k == IF /\ pk[Len(pk) - 1] = d.cache.sepLeft
                   /\ pk[Len(pk)] = d.cache.sepRight
                THEN SubSeq(pk, 1, Len(pk) - 2) ELSE pk
       IN IF k \in DOMAIN st.m THEN [st EXCEPT !.m[k] = @ \o mm[pk]]
          ELSE IF k \in DOMAIN st.ps THEN st
          ELSE The({
                 IF r.err = NoErr
                 THEN [st EXCEPT !.ps = Put(@, k, r.parts), !.m = Put(@, k, mm[pk])]
                 ELSE IF r.err = invalidPath
                 THEN IF ~d.ignoreUnknownKeys
                      THEN [st EXCEPT !.errors = Put(@, k, UnknownKeyError(k)),
                                      !.stop = ~d.collectErrors]
                      ELSE st
                 ELSE [st EXCEPT !.errors = Put(@, k, r.err),
                                 !.stop = ~d.collectErrors]
                 : r \in {parsePath(d.cache, d.cache.m, k, t, location)} })

\* Decoder.merge: the keys of mm are visited in the order `order`
RECURSIVE merge(_, _, _, _, _, _)
merge(d, st, mm, t, location, order) ==
  IF order = <<>> \/ st.stop \/ st.panic THEN st
  ELSE merge(d, mergeKey(d, st, mm, order[1], t, location), mm, t, location, Tail(order))

\* one iteration of the loop of checkFiles
checkFilesKey(d, st, k, t) ==
  The({ IF r.err = NoErr THEN [st EXCEPT !.ps = Put(@, k, r.parts)]
        ELSE IF r.err = invalidPath
        THEN IF ~d.ignoreUnknownKeys
             THEN [st EXCEPT !.errors = Put(@, k, UnknownKeyError(k)),
                             !.stop = ~d.collectErrors]
             ELSE st
        ELSE [st EXCEPT !.errors = Put(@, k, r.err), !.stop = ~d.collectErrors]
        : r \in {parsePath(d.cache, d.cache.m, k, t, LocationFile)} })

\* Decoder.checkFiles
RECURSIVE checkFiles(_, _, _, _)
checkFiles(d, st, t, order) ==
  IF order = <<>> \/ st.stop THEN st
  ELSE checkFiles(d, checkFilesKey(d, st, order[1], t), t, Tail(order))

\* the orders a range over a map with the keys K can take
Orders(K) ==
  {o \in [1..Cardinality(K) -> K] : \A i, j \in 1..Cardinality(K) : i # j => o[i] # o[j]}

(***************************************************************************)
(* Requests                                                                *)
(***************************************************************************)

\* keys of the sources
kAuth == <<"A", "u", "t", "h">>
kn == <<"n">>
knn == <<"n", "n">>
kns == <<"n", "s">>
kzz == <<"z", "z">>
kId == <<"I", "d">>
kx5n == <<"x", "[", "5", "]", "[", "n", "]">>
kx2n == <<"x", "[", "2", "]", "[", "n", "]">>
kx5m == <<"x", "[", "5", "]", "[", "m", "]">>
kxd5n == <<"x", ".", "5", ".", "n">>
kxd2n == <<"x", ".", "2", ".", "n">>
kxdm1n == <<"x", ".", "-", "1", ".", "n">>
kA0b0n == <<"A", ".", "0", ".", "b", ".", "0", ".", "n">>
kA1b0n == <<"A", ".", "1", ".", "b", ".", "0", ".", "n">>
ka0b0m == <<"a", ".", "0", ".", "b", ".", "0", ".", "m">>
ka == <<"a">>
kb == <<"b">>
kc == <<"c">>
kz == <<"z">>
kaa == <<"a", "a">>
kbb == <<"b", "b">>
kqq == <<"q", "q">>
klimit == <<"l", "i", "m", "i", "t">>
koffset == <<"o", "f", "f", "s", "e", "t">>
kfkind == <<"f", "i", "l", "t", "e", "r", ".", "k", "i", "n", "d">>
kuserid == <<"u", "s", "e", "r", "i", "d">>
kids == <<"i", "d", "s">>
ksince == <<"s", "i", "n", "c", "e">>
kdoc == <<"d", "o", "c">>
knote == <<"n", "o", "t", "e">>
kinx == <<"i", "n", ".", "x">>

\* raw values
v1 == <<"1">>
v2 == <<"2">>
v3 == <<"3">>
v5 == <<"5">>
v123 == <<"1", ",", "2", ",", "3">>
vx == <<"x">>
vh == <<"h">>
vq == <<"q">>
vEmpty == <<>>

\* the header key and the values of Content-Type
kContentType == <<"C", "o", "n", "t", "e", "n", "t", "-", "T", "y", "p", "e">>
ctJSON == <<"a", "p", "p", "l", "i", "c", "a", "t", "i", "o", "n", "/", "j", "s", "o", "n">>
ctForm == <<"a", "p", "p", "l", "i", "c", "a", "t", "i", "o", "n", "/", "x", "-", "w", "w", "w", "-", "f", "o", "r", "m", "-", "u", "r", "l", "e", "n", "c", "o", "d", "e", "d">>
ctMultipart == <<"m", "u", "l", "t", "i", "p", "a", "r", "t", "/", "f", "o", "r", "m", "-", "d", "a", "t", "a">>

\* the files of a multipart form: open tells what Open returns for the file,
\* a file, or an error with a nil File, or an error with a File that holds a
\* nil *os.File
File1 == [id |-> 101, Filename |-> <<"f", "1">>, open |-> "file"]
File2 == [id |-> 102, Filename |-> <<"f", "2">>, open |-> "nil"]
File3 == [id |-> 103, Filename |-> <<"f", "3">>, open |-> "nilptr"]

\* One entry of a request: a key of one source with its values (a member of
\* the JSON body, a form field, an uploaded file, a header, a query parameter,
\* a path parameter).
Entry(src, key, val) == [src |-> src, key |-> key, val |-> val]

\* the entries the requests to a target type are made of
Pool(tn) ==
  CASE tn = "Req" ->
         { Entry("header", kAuth, <<vh>>),
           Entry("query", kAuth, <<vq>>),
           Entry("query", knn, <<v1, v2>>),
           Entry("query", kzz, <<v1>>),
           Entry("query", kId, <<v5>>),
           Entry("path", kId, <<v3>>) }
    [] tn = "Nums" ->
         { Entry("query", kn, <<v1, v2>>),
           Entry("query", knn, <<v1, v2>>),
           Entry("query", knn, <<vEmpty>>),
           Entry("query", kns, <<v1, v2>>),
           Entry("query", kns, <<v123>>),
           Entry("query", kns, <<vEmpty>>) }
    [] tn = "List" ->
         { Entry("query", kx5n, <<v1>>),
           Entry("query", kx2n, <<v2>>),
           Entry("query", kx5m, <<v3>>),
           Entry("query", kxd5n, <<v1>>),
           Entry("query", kxd2n, <<v2>>),
           Entry("query", kxdm1n, <<v3>>) }
    [] tn = "Body" ->
         { Entry("json", ka, JNum(1)),
           Entry("json", kb, JObj((kc :> JNum(2)))),
           Entry("json", kz, JNum(1)) }
    [] tn = "Mixed" ->
         { Entry("json", kaa, JNum(1)),
           Entry("json", kbb, JObj((kc :> JNum(2)))),
           Entry("json", kzz, JNum(1)),
           Entry("json", kz, JNull),
           Entry("query", kqq, <<v5>>) }
    [] tn = "GetImagesRequest" ->
         { Entry("query", klimit, <<v1>>),
           Entry("header", klimit, <<v2>>),
           Entry("query", koffset, <<v1>>),
           Entry("header", koffset, <<v2>>),
           Entry("query", kfkind, <<v1>>),
           Entry("header", kfkind, <<v2>>),
           Entry("path", kuserid, <<v5>>) }
    [] tn = "Conv" ->
         { Entry("query", kids, <<v123>>),
           Entry("query", kids, <<v5>>),
           Entry("query", kids, <<vEmpty>>),
           Entry("query", ksince, <<v123>>),
           Entry("query", ksince, <<vEmpty>>),
           Entry("query", ksince, <<vx>>) }
    [] tn = "Outer" ->
         { Entry("query", kinx, <<v1>>) }
    [] tn = "Twin" ->
         { Entry("query", knn, <<v1>>) }
    [] tn = "Deep" ->
         { Entry("query", knn, <<v1>>) }
    [] tn = "Nest" ->
         { Entry("query", kA0b0n, <<v1>>),
           Entry("query", kA1b0n, <<v2>>),
           Entry("query", ka0b0m, <<v3>>) }
    [] tn = "Album" ->
         { Entry("file", kdoc, <<File1>>),
           Entry("file", kdoc, <<File1, File2>>),
           Entry("file", kdoc, <<File1, File3>>),
           Entry("file", kdoc, <<File3>>),
           Entry("form", knote, <<vh>>) }
    [] tn = "Upload" ->
         { Entry("file", kdoc, <<File1>>),
           Entry("file", kzz, <<File1>>),
           Entry("form", knote, <<vh>>),
           Entry("form", kdoc, <<vx>>) }

\* the most entries a request has
MaxEntries == 2

\* the target types Decode is called with
RootTypes == {"Req", "Nums", "List", "Body", "Mixed", "GetImagesRequest", "Conv",
              "Outer", "Twin", "Deep", "Nest", "Album",
              "Upload"}

\* the map of one source of a request made of the entries es
SourceMap(es, src) ==
  [k \in {e.key : e \in {x \in es : x.src = src}} |->
     (CHOOSE e \in es : e.src = src /\ e.key = k).val]

\* The request made of the entries es. A body makes it a POST with the
\* Content-Type of the body; Content-Type is a header like any other.
Request(es) ==
  LET srcs == {e.src : e \in es}
      ct == IF "file" \in srcs THEN ctMultipart
            ELSE IF "form" \in srcs THEN ctForm
            ELSE IF "json" \in srcs THEN ctJSON
            ELSE <<>>
  IN [method |-> IF ct = <<>> THEN "GET" ELSE "POST",
      body   |-> JObj(SourceMap(es, "json")),
      form   |-> SourceMap(es, "form"),
      files  |-> SourceMap(es, "file"),
      header |-> IF ct = <<>> THEN SourceMap(es, "header")
                 ELSE Put(SourceMap(es, "header"), kContentType, <<ct>>),
      query  |-> SourceMap(es, "query"),
      path   |-> SourceMap(es, "path")]

\* the entries a request starts from: none, the members a and b of a JSON
\* body, or the first two keys of a nested sequence
Bases(tn) ==
  IF tn = "Body"
  THEN {{}, {Entry("json", ka, JNum(1)), Entry("json", kb, JObj((kc :> JNum(2))))}}
  ELSE IF tn = "Nest"
  THEN {{}, {Entry("query", kA0b0n, <<v1>>), Entry("query", kA1b0n, <<v2>>)}}
  ELSE {{}}

\* the requests to a target type: a base and at most MaxEntries entries, one
\* per source and key, and at most one kind of body
Requests(tn) ==
  { Request(es) : es \in
      { x \in SUBSET Pool(tn) :
          /\ \E b \in Bases(tn) : b \subseteq x /\ Cardinality(x \ b) <= MaxEntries
          /\ \A e, f \in x : (e.src = f.src /\ e.key = f.key) => e = f
          /\ ~({"json"} \subseteq {e.src : e \in x}
               /\ {e.src : e \in x} \cap {"form", "file"} # {}) } }

\* The targets Decode is called with: the zero value of the type, or a
\* struct whose value fields were set before.
RECURSIVE Prior(_)
Prior(t) ==
  CASE Kind(t) = "int"    -> 7
    [] Kind(t) = "string" -> <<"p">>
    [] Kind(t) = "slice" /\ Kind(t.e) = "int" -> SliceOf(1, <<7>>)
    [] t = TTime          -> TimeOf(9)
    [] Kind(t) = "struct" -> [f \in FieldNames(t.name) |-> Prior(FieldDecl(t.name, f).typ)]
    [] OTHER              -> Zero(t)

Targets(tn) ==
  {Zero(TStruct(tn))} \cup (IF tn \in {"Nums", "Conv"} THEN {Prior(TStruct(tn))} ELSE {})

(***************************************************************************)
(* The decoder and one call of Decode                                      *)
(***************************************************************************)

VARIABLES
  d,         \* the Decoder, with its cache
  pc,        \* where Decode is: idle before the call, done after it returned
  dstKind,   \* what dst is: a pointer to a struct or something else
  T,         \* the struct type dst points to
  target,    \* the struct dst points to
  target0,   \* the struct as it was when Decode was called
  req,       \* the request r
  m,         \* the merged values: key -> values
  fs,        \* the uploaded files: key -> file headers
  ps,        \* the parsed paths: key -> path parts
  errors,    \* the MultiError of the call
  lens,      \* the positions allocated in sequences of structs
  nextId,    \* the next allocation
  visited,   \* the keys decodeMaps has been through
  consumed,  \* the sources of the request read so far
  ret,       \* what Decode returned
  streams,   \* the files opened by the call: open or closed
  splitArg,  \* the path given to cache.splitPath called on its own
  splitRet,  \* what cache.splitPath returned for it
  gt,        \* the type the concurrent callers of cache.get ask for
  gpc,       \* where each caller of cache.get is
  ginfo,     \* the local info of each caller of cache.get
  lock,      \* c.l: the callers holding the read lock, the one holding the lock
  bt,        \* the type whose structInfo is built, step by step
  bstack,    \* the calls of create and hasFiles in progress, the last on top
  bret       \* what the last call of hasFiles returned

vars == <<d, pc, dstKind, T, target, target0, req, m, fs, ps, errors, lens,
          nextId, visited, consumed, ret, streams, splitArg, splitRet, gt, gpc, ginfo, lock,
          bt, bstack, bret>>

\* the variables of the operations called on their own
build == <<bt, bstack, bret>>
aside == <<splitArg, splitRet, gt, gpc, ginfo, lock, build>>

\* the most goroutines that call cache.get at once
MaxCallers == 2
Callers == 1..MaxCallers

\* a nil *structInfo
nilInfo == [nil |-> TRUE]

NotReturned == [kind |-> "none"]

\* NewDecoder() and newCache()
NewDecoder ==
  [zeroEmpty |-> FALSE, ignoreUnknownKeys |-> TRUE, collectErrors |-> FALSE,
   pathExtractor |-> FALSE,
   cache |-> [m |-> EmptyMap, regconv |-> {}, sepLeft |-> NUL,
              sepRight |-> NUL, sep |-> ".",
              defaultLocation |-> LocationJSON]]

\* no call of Decode has been made
Idle ==
  /\ pc = "idle"
  /\ dstKind = "none"
  /\ T = ""
  /\ target = EmptyMap
  /\ target0 = EmptyMap
  /\ req = Request({})
  /\ m = EmptyMap
  /\ fs = EmptyMap
  /\ ps = EmptyMap
  /\ errors = EmptyMap
  /\ lens = EmptyMap
  /\ nextId = 10
  /\ visited = {}
  /\ consumed = {}
  /\ ret = NotReturned
  /\ streams = EmptyMap
  /\ splitArg = <<>>
  /\ splitRet = [ok |-> TRUE, parts |-> <<<<>>>>]
  /\ gt = ""
  /\ gpc = [p \in Callers |-> "idle"]
  /\ ginfo = [p \in Callers |-> nilInfo]
  /\ lock = [readers |-> {}, writer |-> 0]
  /\ bt = ""
  /\ bstack = <<>>
  /\ bret = FALSE

Init == d = NewDecoder /\ Idle

call == <<dstKind, T, target, target0, req, m, fs, ps, errors, lens, nextId,
          visited, consumed, ret, streams>>

\* Decoder.ZeroEmpty
ZeroEmpty(z) ==
  /\ pc = "idle"
  /\ d' = [d EXCEPT !.zeroEmpty = z]
  /\ UNCHANGED <<pc, call>>
  /\ UNCHANGED aside

\* Decoder.IgnoreUnknownKeys
IgnoreUnknownKeys(i) ==
  /\ pc = "idle"
  /\ d' = [d EXCEPT !.ignoreUnknownKeys = i]
  /\ UNCHANGED <<pc, call>>
  /\ UNCHANGED aside

\* Decoder.CollectErrors
CollectErrors(c) ==
  /\ pc = "idle"
  /\ d' = [d EXCEPT !.collectErrors = c]
  /\ UNCHANGED <<pc, call>>
  /\ UNCHANGED aside

\* Decoder.PathExtractor: p is whether a function is given
PathExtractor(p) ==
  /\ pc = "idle"
  /\ d' = [d EXCEPT !.pathExtractor = p]
  /\ UNCHANGED <<pc, call>>
  /\ UNCHANGED aside

\* Decoder.Separator
Separator(left, right, sep) ==
  /\ pc = "idle"
  /\ d' = [d EXCEPT !.cache.sepLeft = left, !.cache.sepRight = right,
                    !.cache.sep = sep]
  /\ UNCHANGED <<pc, call>>
  /\ UNCHANGED aside

\* Decoder.RegisterConverter, for a value of type t
RegisterConverter(t) ==
  /\ pc = "idle"
  /\ d' = [d EXCEPT !.cache.regconv = @ \cup {t}]
  /\ UNCHANGED <<pc, call>>
  /\ UNCHANGED aside

isMultipartForm(r) ==
  /\ kContentType \in DOMAIN r.header
  /\ Len(r.header[kContentType][1]) >= Len(ctMultipart)
  /\ SubSeq(r.header[kContentType][1], 1, Len(ctMultipart)) = ctMultipart

isURLEncodedForm(r) ==
  kContentType \in DOMAIN r.header /\ r.header[kContentType][1] = ctForm

isPost(r) == r.method \in {"POST", "PUT", "PATCH"}

ConfigError == [kind |-> "error", msg |-> "interface must be a pointer to struct"]

\* a check of dst that looks at the pointer and not at what it points to
isPtrOnly(kind) == kind \in {"ptr-struct", "ptr-int"}

\* v.Kind() == reflect.Ptr && v.Elem().Kind() == reflect.Struct, for dst of
\* the kind given
isPtrToStruct(kind) == kind = "ptr-struct"
ContentTypeError(ct) == [kind |-> "ContentTypeError", ContentType |-> ct]
ParsingError(msg) == [kind |-> "ParsingError", Err |-> msg]
MultiError(es) == [kind |-> "MultiError", errors |-> es]

Info == d.cache.m[T]

\* Decode, from its call to the point where the sources are merged
Decode(kind, tn, tgt, r) ==
  /\ pc = "idle"
  /\ dstKind' = kind
  /\ T' = tn
  /\ target0' = tgt
  /\ req' = r
  /\ UNCHANGED <<m, ps, errors, lens, nextId, visited, streams>>
  /\ IF ~isPtrToStruct(kind)
     THEN /\ ret' = ConfigError
          /\ pc' = "done"
          /\ target' = tgt
          /\ UNCHANGED <<d, fs, consumed>>
     ELSE \E ord \in TagOrders :
          \E g \in {cacheGet(d.cache, d.cache.m, TStruct(tn), ord)} :
            LET info == g.info
            IN /\ d' = [d EXCEPT !.cache.m = g.cm]
               /\ IF /\ isPost(r)
                     /\ ~info.containsPath /\ ~info.containsQuery
                     /\ ~info.containsHeader /\ ~info.containsFile
                     /\ ~info.containsForm /\ info.containsJSON
                  THEN \E j \in {jsonDecode(TStruct(tn), tgt, r.body)} :
                          /\ target' = j.v
                          /\ ret' = IF j.ok THEN NoErr
                                    ELSE ParsingError("cannot unmarshal JSON")
                          /\ pc' = "done"
                          /\ consumed' = {"body"}
                          /\ UNCHANGED fs
                  ELSE IF isPost(r) /\ info.containsFile
                  THEN /\ target' = tgt
                       /\ IF ~isMultipartForm(r)
                          THEN /\ ret' = ContentTypeError(ctMultipart)
                               /\ pc' = "done"
                               /\ UNCHANGED <<fs, consumed>>
                          ELSE /\ fs' = r.files
                               /\ consumed' = {"multipart"}
                               /\ pc' = "checkFiles"
                               /\ UNCHANGED ret
                  ELSE /\ target' = tgt
                       /\ pc' = "extractBody"
                       /\ UNCHANGED <<fs, consumed, ret>>
  /\ UNCHANGED aside

\* a stage after which Decode goes on whatever errors were found
AfterStageGoesOn(es, next) == pc' = next /\ UNCHANGED ret

\* the return of Decode after a stage: with collectErrors off, the errors
\* found so far
AfterStage(es, next) ==
  IF ~d.collectErrors /\ DOMAIN es # {}
  THEN pc' = "done" /\ ret' = MultiError(es)
  ELSE pc' = next /\ UNCHANGED ret

\* Decode: d.checkFiles(fs, t, ps, errors)
CheckFiles ==
  /\ pc = "checkFiles"
  /\ \E order \in Orders(DOMAIN fs) :
     \E st \in {checkFiles(d, [ps |-> ps, errors |-> errors, stop |-> FALSE],
                            TStruct(T), order)} :
          /\ ps' = st.ps
          /\ errors' = st.errors
          /\ AfterStage(st.errors, "extractBody")
  /\ UNCHANGED <<d, dstKind, T, target, target0, req, m, fs, lens, nextId,
                 visited, consumed, streams>>
  /\ UNCHANGED aside

\* what a merge leaves: the merged maps, or a panic
Merged(st, src, next) ==
  /\ consumed' = consumed \cup {src}
  /\ m' = st.m
  /\ ps' = st.ps
  /\ errors' = st.errors
  /\ IF st.panic THEN pc' = "panic" /\ UNCHANGED ret
     ELSE AfterStage(st.errors, next)

MergeState == [m |-> m, ps |-> ps, errors |-> errors, stop |-> FALSE, panic |-> FALSE]

Skip(next) == pc' = next /\ UNCHANGED <<m, ps, errors, consumed, ret>>

\* the members of the JSON body that are no alias of the type: errors, one
\* at a time, in the order the map is ranged over
RECURSIVE unknownJSON(_, _, _)
unknownJSON(st, aliases, order) ==
  IF order = <<>> \/ st.stop THEN st
  ELSE IF \E i \in 1..Len(aliases) : aliases[i] = order[1]
       THEN unknownJSON(st, aliases, Tail(order))
  ELSE unknownJSON([st EXCEPT
                      !.errors = IF d.ignoreUnknownKeys THEN @
                                 ELSE Put(@, order[1], UnknownKeyError(order[1])),
                      !.stop = ~d.ignoreUnknownKeys /\ ~d.collectErrors,
                      !.deleted = @ \cup {order[1]}],
                   aliases, Tail(order))

\* extractMap: the body of a POST, PUT or PATCH, a form or JSON
ExtractBody ==
  /\ pc = "extractBody"
  /\ IF isPost(req) /\ Info.containsForm /\ (isURLEncodedForm(req) \/ isMultipartForm(req))
     THEN IF ~Info.containsFile /\ ~isURLEncodedForm(req)
          THEN /\ pc' = "done"
               /\ ret' = ContentTypeError(ctForm)
               /\ UNCHANGED <<m, ps, errors, consumed>>
          ELSE \E order \in Orders(DOMAIN req.form) :
                 Merged(merge(d, MergeState, req.form, TStruct(T), LocationForm, order),
                        "form", "extractHeader")
     ELSE IF /\ isPost(req) /\ Info.containsJSON
             /\ ~isURLEncodedForm(req) /\ ~isMultipartForm(req)
     THEN \E o1 \in Orders(DOMAIN req.body.m) :
            LET u == unknownJSON([errors |-> errors, stop |-> FALSE, deleted |-> {}],
                                 Info.fieldsJSON, o1)
                mm == [k \in DOMAIN req.body.m \ u.deleted |-> req.body.m[k]]
            IN IF u.stop
               THEN /\ consumed' = consumed \cup {"body"}
                    /\ errors' = u.errors
                    /\ pc' = "done"
                    /\ ret' = MultiError(u.errors)
                    /\ UNCHANGED <<m, ps>>
               ELSE IF flattenPanics(JObj(mm))
               THEN /\ consumed' = consumed \cup {"body"}
                    /\ errors' = u.errors
                    /\ pc' = "panic"
                    /\ UNCHANGED <<m, ps, ret>>
               ELSE \E o2 \in Orders(DOMAIN flatten(mm)) :
                      Merged(merge(d, [MergeState EXCEPT !.errors = u.errors],
                                   flatten(mm), TStruct(T), LocationJSON, o2),
                             "body", "extractHeader")
     ELSE Skip("extractHeader")
  /\ UNCHANGED <<d, dstKind, T, target, target0, req, fs, lens, nextId, visited,
                 streams>>
  /\ UNCHANGED aside

\* extractMap: the headers
ExtractHeader ==
  /\ pc = "extractHeader"
  /\ IF Info.containsHeader
     THEN \E order \in Orders(DOMAIN req.header) :
            Merged(merge(d, MergeState, req.header, TStruct(T), LocationHeader, order),
                   "header", "extractQuery")
     ELSE Skip("extractQuery")
  /\ UNCHANGED <<d, dstKind, T, target, target0, req, fs, lens, nextId, visited,
                 streams>>
  /\ UNCHANGED aside

\* extractMap: the query string
ExtractQuery ==
  /\ pc = "extractQuery"
  /\ IF Info.containsQuery
     THEN \E order \in Orders(DOMAIN req.query) :
            Merged(merge(d, MergeState, req.query, TStruct(T), LocationQuery, order),
                   "query", "extractPath")
     ELSE Skip("extractPath")
  /\ UNCHANGED <<d, dstKind, T, target, target0, req, fs, lens, nextId, visited,
                 streams>>
  /\ UNCHANGED aside

\* extractMap: the path parameters, then Decode goes on to decodeMaps
ExtractPath ==
  /\ pc = "extractPath"
  /\ IF Info.containsPath /\ d.pathExtractor
     THEN \E order \in Orders(DOMAIN req.path) :
            Merged(merge(d, MergeState, req.path, TStruct(T), LocationPath, order),
                   "path", "decodeMaps")
     ELSE Skip("decodeMaps")
  /\ UNCHANGED <<d, dstKind, T, target, target0, req, fs, lens, nextId, visited,
                 streams>>
  /\ UNCHANGED aside

\* the keys decodeMaps has yet to visit
Remaining == (DOMAIN m \cup DOMAIN fs) \ visited
\* the keys in the order the maps are ranged over, without the sort
NextKeysAsRanged == Remaining

\* the keys natsort.Sort puts before the others yet to visit
NextKeys == {k \in Remaining : \A j \in Remaining : ~Before(j, k)}

\* decodeMaps: one iteration of its loop over the sorted keys
DecodeKey ==
  /\ pc = "decodeMaps"
  /\ \E path \in NextKeys :
       /\ visited' = visited \cup {path}
       /\ IF path \notin DOMAIN ps
          THEN UNCHANGED <<target, lens, nextId, errors, pc, ret, streams>>
          ELSE \E r \in {decode(d, [target |-> target, lens |-> lens,
                                      nextId |-> nextId, err |-> NoErr],
                                  <<>>, TStruct(T), path, ps[path],
                                  IF path \in DOMAIN m THEN m[path] ELSE <<>>,
                                  IF path \in DOMAIN m THEN <<>> ELSE fs[path])} :
                  /\ target' = r.target
                  /\ lens' = r.lens
                  /\ nextId' = r.nextId
                  /\ streams' = r.files @@ streams
                  /\ IF r.err = NoErr THEN UNCHANGED <<errors, pc, ret>>
                     ELSE IF r.err = Panic
                     THEN pc' = "panic" /\ UNCHANGED <<errors, ret>>
                     ELSE /\ errors' = Put(errors, path, r.err)
                          /\ IF d.collectErrors THEN UNCHANGED <<pc, ret>>
                             ELSE pc' = "done" /\ ret' = MultiError(errors')
  /\ UNCHANGED <<d, dstKind, T, target0, req, m, fs, ps, consumed>>
  /\ UNCHANGED aside

\* decodeMaps has visited every key: Decode returns
DecodeReturn ==
  /\ pc = "decodeMaps"
  /\ Remaining = {}
  /\ pc' = "done"
  /\ ret' = IF DOMAIN errors # {} THEN MultiError(errors) ELSE NoErr
  /\ UNCHANGED <<d, dstKind, T, target, target0, req, m, fs, ps, errors, lens,
                 nextId, visited, consumed, streams>>
  /\ UNCHANGED aside

Next ==
  \/ \E z \in BOOLEAN : ZeroEmpty(z)
  \/ \E i \in BOOLEAN : IgnoreUnknownKeys(i)
  \/ \E c \in BOOLEAN : CollectErrors(c)
  \/ \E p \in BOOLEAN : PathExtractor(p)
  \/ Separator("[", "]", NUL)
  \/ Separator(NUL, NUL, ".")
  \/ RegisterConverter(TIDs)
  \/ \E kind \in {"ptr-struct", "struct", "ptr-int"}, tn \in RootTypes :
       \E tgt \in Targets(tn), r \in Requests(tn) : Decode(kind, tn, tgt, r)
  \/ CheckFiles
  \/ ExtractBody
  \/ ExtractHeader
  \/ ExtractQuery
  \/ ExtractPath
  \/ DecodeKey
  \/ DecodeReturn

Spec == Init /\ [][Next]_vars

(***************************************************************************)
(* cache.splitPath on its own, under the bracketed grammar                 *)
(***************************************************************************)

\* the longest path given to splitPath
MaxPathLen == 8

\* the characters of the paths: a name character, the brackets and the
\* separator
SplitRunes == {"a", "[", "]", "."}

\* a decoder after Separator('[', ']', '.') or Separator('[', ']', 0)
SplitInit ==
  /\ \E sep \in {".", NUL} :
       d = [NewDecoder EXCEPT !.cache.sepLeft = "[", !.cache.sepRight = "]",
                              !.cache.sep = sep]
  /\ Idle

\* c.splitPath(path) for the path splitArg followed by r
SplitPath(r) ==
  /\ Len(splitArg) < MaxPathLen
  /\ splitArg' = Append(splitArg, r)
  /\ splitRet' = splitPath(d.cache, splitArg')
  /\ UNCHANGED <<d, pc, call, gt, gpc, ginfo, lock, build>>

SplitNext == \E r \in SplitRunes : SplitPath(r)

SplitSpec == SplitInit /\ [][SplitNext]_vars

(***************************************************************************)
(* Properties                                                              *)
(***************************************************************************)

\* Decode was called with a pointer to a struct and has returned
Returned == pc = "done" /\ dstKind = "ptr-struct"

\* the request carries nothing but the query parameters q
QueryOnly(q) ==
  /\ req.query = q
  /\ DOMAIN req.header = {} /\ DOMAIN req.path = {}
  /\ DOMAIN req.form = {} /\ DOMAIN req.files = {} /\ DOMAIN req.body.m = {}

\* what the request carries at a location, as key -> values
SourceAt(location) ==
  CASE location = LocationPath   -> req.path
    [] location = LocationQuery  -> req.query
    [] location = LocationHeader -> req.header
    [] location = LocationForm   -> req.form
    [] location = LocationFile   -> req.files
    [] location = LocationJSON   ->
         flatten([k \in {x \in DOMAIN req.body.m : ~flattenPanics(req.body.m[x])} |->
                    req.body.m[k]])
    [] OTHER -> EmptyMap

\* the raw values the request carries for the alias at the locations
Carried(alias, locations) ==
  UNION { { SourceAt(locations[i])[k][j] : j \in 1..Len(SourceAt(locations[i])[k]) } :
            <<i, k>> \in { x \in (1..Len(locations)) \X
                                 UNION {DOMAIN SourceAt(locations[n]) : n \in 1..Len(locations)} :
                           x[2] \in DOMAIN SourceAt(locations[x[1]]) /\ EqualFold(x[2], alias) } }

\* the values a scalar field of type t can take from the raw values S
Written(t, S) ==
  { builtinConvert(Kind(t), s).v : s \in {x \in S : builtinConvert(Kind(t), x).ok} }

\* C1, as the specification states it: a scalar field of the target holds
\* what it held before the call, or its zero value, or a value the request
\* carries at one of the field's allowed locations; a value carried at any
\* other location is never written into it.
C1_OnlyAllowedLocationsWritten ==
  (Returned /\ T \in DOMAIN d.cache.m) =>
    \A i \in 1..Len(Info.fields) :
      LET f == Info.fields[i]
      IN (f.name \in DOMAIN target /\ Kind(f.typ) \in {"int", "string"}) =>
           target[f.name] \in {target0[f.name], Zero(f.typ)}
                              \cup Written(f.typ, Carried(f.alias, f.locations))

\* C2, as the specification states it: when the query carries the key of a
\* field allowed in the header only, Decode returns a LocationError for the
\* key, with the header as the allowed location and the query as the location
\* used; in fail-fast mode the error of another key may be returned instead.
C2_HeaderFieldInQueryIsLocationError ==
  (Returned /\ T = "Req" /\ kAuth \in DOMAIN req.query) =>
    /\ ret.kind = "MultiError"
    /\ \/ /\ kAuth \in DOMAIN ret.errors
          /\ ret.errors[kAuth] = LocationError(kAuth, <<LocationHeader>>, LocationQuery)
       \/ ~d.collectErrors /\ DOMAIN ret.errors # {}

\* the request carries x[5][n] and x[2][n] in the query, the grammar is the
\* bracketed one, and decodeMaps has decoded both into the empty sequence
C3_TwoIndicesDecoded ==
  /\ Returned /\ T = "List" /\ d.cache.sepLeft = "["
  /\ {kx5n, kx2n} \subseteq DOMAIN req.query
  /\ {kx5n, kx2n} \subseteq visited

\* C3, amended: decoding x[5][n]=1 and x[2][n]=2 yields exactly two elements
\* in the natural sorted order of the keys, the element of index 2 first and
\* the element of index 5 second; the sequence is not sized by the indices.
C3_TwoElementsInSortedKeyOrder ==
  C3_TwoIndicesDecoded =>
    /\ Len(target[sX].elems) = 2
    /\ target[sX].elems[1][sN] = 2
    /\ target[sX].elems[2][sN] = 1

\* C3, as the specification states it: the two elements are in the order the
\* keys were presented, the element of index 5 first.
C3_TwoElementsInPresentedOrder ==
  C3_TwoIndicesDecoded =>
    /\ Len(target[sX].elems) = 2
    /\ target[sX].elems[1][sN] = 1
    /\ target[sX].elems[2][sN] = 2

\* C4, as the specification states it: a JSON body with the members a, b.c
\* and an unknown z, sent to a type whose fields are all routed to the body,
\* with unknown keys not ignored and errors collected, makes Decode report
\* UnknownKeyError for z and still populate a and b.c.
C4_UnknownBodyKeyReported ==
  (/\ Returned /\ T = "Body"
   /\ DOMAIN req.body.m = {ka, kb, kz}
   /\ ~d.ignoreUnknownKeys /\ d.collectErrors) =>
    /\ ret.kind = "MultiError"
    /\ kz \in DOMAIN ret.errors
    /\ ret.errors[kz] = UnknownKeyError(kz)
    /\ target[sA] = 1
    /\ target[sB][sC] = 2

\* C5, as the specification states it: a query key repeated with the values
\* 1 and 2 sets a scalar field to 2, the last value (?n=1&n=2 gives 2), and a
\* sequence field of integers to [1, 2].
C5_RepeatedQueryKey ==
  (pc \in {"done", "panic"} /\ dstKind = "ptr-struct" /\ T = "Nums") =>
    /\ QueryOnly((kn :> <<v1, v2>>)) => (pc = "done" /\ target[sN] = 2)
    /\ QueryOnly((knn :> <<v1, v2>>)) => (pc = "done" /\ target[sNn] = 2)
    /\ QueryOnly((kns :> <<v1, v2>>)) => (pc = "done" /\ target[sNs].elems = <<1, 2>>)

\* C6: for a sequence of integers with no converter registered for the
\* sequence type, the single value "1,2,3" decodes to [1, 2, 3] and a value
\* that converts as a whole is not split; for a sequence type with a
\* registered converter that fails on "1,2,3", Decode reports one
\* ConversionError for the key, of the whole value, and the field keeps what
\* it held.
C6_SplitOnlyWithoutConverter ==
  Returned =>
    /\ (T = "Nums" /\ kns \in visited /\ req.query[kns] = <<v123>>) =>
         (target[sNs].elems = <<1, 2, 3>> /\ kns \notin DOMAIN errors)
    /\ (T = "Conv" /\ kids \in visited /\ req.query[kids] = <<v123>>) =>
         IF TIDs \in d.cache.regconv
         THEN /\ errors[kids] = ConversionError(kids, TIDs, -1)
              /\ ret.kind = "MultiError" /\ ret.errors[kids] = errors[kids]
              /\ target[sIds] = target0[sIds]
         ELSE target[sIds].elems = <<1, 2, 3>> /\ kids \notin DOMAIN errors
    /\ (T = "Conv" /\ kids \in visited /\ req.query[kids] = <<v5>>) =>
         target[sIds].elems = <<5>>

\* the value "1,2,3" was split into the three elements of a sequence field
C6_Split ==
  /\ Returned /\ T = "Nums" /\ QueryOnly((kns :> <<v123>>))
  /\ target[sNs].elems = <<1, 2, 3>> /\ target0[sNs].elems = <<7>>

\* C7, as the specification states it: with unknown keys not ignored, a
\* request with the unknown key zz and the valid key nn makes Decode return
\* an error for zz and still decode nn.
C7_ValidKeysStillDecoded ==
  (/\ Returned /\ T = "Req" /\ ~d.ignoreUnknownKeys
   /\ QueryOnly((knn :> <<v1, v2>> @@ kzz :> <<v1>>))) =>
    /\ ret.kind = "MultiError"
    /\ kzz \in DOMAIN ret.errors
    /\ target[sNn] = 2

\* C8, as the specification states it: an empty value leaves a scalar field
\* and the elements of a sequence field as they were when ZeroEmpty is false,
\* and makes the field its zero value when ZeroEmpty is true.
C8_EmptyValueLeavesField ==
  (Returned /\ T = "Nums") =>
    /\ QueryOnly((knn :> <<vEmpty>>)) =>
         target[sNn] = (IF d.zeroEmpty THEN 0 ELSE target0[sNn])
    /\ QueryOnly((kns :> <<vEmpty>>)) =>
         target[sNs].elems = (IF d.zeroEmpty THEN <<>> ELSE target0[sNs].elems)

\* the tags of a field that name a location for it
LocationTagsOf(f) ==
  {n \in {"path", "query", "header", "form", "file", "json"} :
     parseTag(f.tags[n]) \notin {<<>>, Dash}}

\* the locations a field declares in its tags, <<>> when it declares none
DeclaredLocations(f) ==
  IF LocationTagsOf(f) # {}
  THEN <<nameToLocation(CHOOSE n \in LocationTagsOf(f) : TRUE)>>
  ELSE fromLocations(f.tags.from)

\* the name a key reaches a field by
DeclaredAlias(f) ==
  IF LocationTagsOf(f) # {} THEN parseTag(f.tags[CHOOSE n \in LocationTagsOf(f) : TRUE])
  ELSE IF f.tags.name # <<>> THEN f.tags.name ELSE f.name

\* the struct type below a field, through pointers and sequences
StructBelow(t) == indirectType(IF Kind(indirectType(t)) = "slice"
                               THEN indirectType(t).e ELSE indirectType(t))

\* The declared list that governs the field the tokens reach from the struct
\* type n: the field's own, else the one of the nearest enclosing field that
\* declares one (enclosing); <<>> when the tokens reach no field or no field
\* on the way declares a list.
RECURSIVE Governing(_, _, _)
Governing(n, tokens, enclosing) ==
  LET D == Decl(n)
      own(f) == IF DeclaredLocations(f) # <<>> THEN DeclaredLocations(f) ELSE enclosing
      named == {i \in 1..Len(D) : ~D[i].anon /\ EqualFold(DeclaredAlias(D[i]), tokens[1])}
      below(f) == StructBelow(f.typ)
      through == {i \in 1..Len(D) :
                    /\ D[i].anon /\ Kind(below(D[i])) = "struct"
                    /\ Governing(below(D[i]).name, tokens, own(D[i])) # <<>>}
  IN IF named # {}
     THEN LET f == D[CHOOSE i \in named : TRUE]
              rest == IF Kind(indirectType(f.typ)) = "slice" /\ Kind(below(f)) = "struct"
                      THEN SubSeq(tokens, 3, Len(tokens)) ELSE Tail(tokens)
          IN IF rest = <<>> THEN own(f)
             ELSE IF Kind(below(f)) = "struct"
                  THEN Governing(below(f).name, rest, own(f))
             ELSE <<>>
     ELSE IF through = {} THEN <<>>
     ELSE LET i == CHOOSE i \in through : \A j \in through : i <= j
          IN Governing(below(D[i]).name, tokens, own(D[i]))

\* the governing list of a key of the request
GoverningOf(k) ==
  IF splitPath(d.cache, k).ok THEN Governing(T, splitPath(d.cache, k).parts, <<>>)
  ELSE <<>>

\* C9, as the specification states it: the list a LocationError names as
\* allowed is the field's own declared list, else the list of the nearest
\* enclosing field that declares one, and the location it rejects is not in
\* that list; a key Decode accepts is carried at a location of that list.
C9_NearestDeclarationGoverns ==
  (pc # "idle" /\ dstKind = "ptr-struct") =>
    /\ \A k \in DOMAIN errors :
         (errors[k].kind = "LocationError" /\ GoverningOf(k) # <<>>) =>
           /\ errors[k].AllowedLocations = GoverningOf(k)
           /\ ~containsInt(GoverningOf(k), errors[k].Location)
    /\ \A k \in DOMAIN ps :
         GoverningOf(k) # <<>> =>
           \E i \in 1..Len(GoverningOf(k)) : k \in DOMAIN SourceAt(GoverningOf(k)[i])

\* C10: Decode called with a target that is no pointer to a struct has
\* returned the configuration error, read no source of the request, left
\* the metadata cache as it was and left the target alone.
C10_NonPointerIsConfigError ==
  (pc # "idle" /\ dstKind # "ptr-struct") =>
    /\ pc = "done"
    /\ ret = ConfigError
    /\ consumed = {}
    /\ DOMAIN d.cache.m = {}
    /\ target = target0

\* Decode was called with a pointer to an integer and a request that carries
\* query parameters
C10_PointerToInt ==
  pc = "done" /\ dstKind = "ptr-int" /\ DOMAIN req.query # {} /\ ret = ConfigError

\* the names of the fields that the metadata of the struct type tn keeps
\* under an alias, in the order of structInfo.fields
AliasedNames(tn, alias) ==
  LET fields == d.cache.m[tn].fields
      F[i \in 0..Len(fields)] ==
        IF i = 0 THEN <<>>
        ELSE IF EqualFold(fields[i].alias, alias)
             THEN Append(F[i - 1], fields[i].name) ELSE F[i - 1]
  IN F[Len(fields)]

\* Decode has built the metadata of Twin, whose embedded Hi and Low both
\* bring a field of alias nn, and the request carries the key nn
C11_TwinBuilt ==
  /\ Returned /\ T = "Twin" /\ "Twin" \in DOMAIN d.cache.m
  /\ knn \in DOMAIN req.query

\* C11, amended: a promoted field that collides on alias with a field the
\* embedding struct declares itself is dropped and the declared field kept
\* (Deep, through Mid, keeps Nn alone); of two fields promoted from two
\* different embedded structs at the same depth, neither is kept (Twin keeps
\* no field of alias nn, and the key nn is written nowhere).
C11_CollidingSiblingsBothDropped ==
  /\ "Mid" \in DOMAIN d.cache.m => AliasedNames("Mid", knn) = <<sNn>>
  /\ "Deep" \in DOMAIN d.cache.m => AliasedNames("Deep", knn) = <<sNn>>
  /\ "Twin" \in DOMAIN d.cache.m => AliasedNames("Twin", knn) = <<>>
  /\ C11_TwinBuilt => target = target0
  /\ (Returned /\ T = "Deep" /\ knn \in DOMAIN req.query) =>
       target[sMid][sNn] = 1 /\ target[sMid][sLow][sMm] = 0

\* C11, as the specification states it: of two promoted fields that collide
\* on alias the metadata of the outer type keeps exactly one, the first
\* declared, also when they come from two embedded structs at the same depth.
C11_FirstDeclaredKept ==
  /\ "Deep" \in DOMAIN d.cache.m => AliasedNames("Deep", knn) = <<sNn>>
  /\ "Twin" \in DOMAIN d.cache.m => AliasedNames("Twin", knn) = <<sNn>>

(***************************************************************************)
(* cache.get called by several goroutines for one type                     *)
(***************************************************************************)

\* the types the callers ask for
GetTypes == {"Dual", "List", "Req"}

\* a goroutine calls c.get(t)
GetCall(p, tn) ==
  /\ gpc[p] = "idle"
  /\ gt \in {"", tn}
  /\ gt' = tn
  /\ gpc' = [gpc EXCEPT ![p] = "RLock"]
  /\ UNCHANGED <<d, pc, call, splitArg, splitRet, build, ginfo, lock>>

\* c.l.RLock()
GetRLock(p) ==
  /\ gpc[p] = "RLock"
  /\ lock.writer = 0
  /\ lock' = [lock EXCEPT !.readers = @ \cup {p}]
  /\ gpc' = [gpc EXCEPT ![p] = "read"]
  /\ UNCHANGED <<d, pc, call, splitArg, splitRet, build, gt, ginfo>>

\* info := c.m[t]
GetRead(p) ==
  /\ gpc[p] = "read"
  /\ ginfo' = [ginfo EXCEPT ![p] = IF gt \in DOMAIN d.cache.m THEN d.cache.m[gt]
                                    ELSE nilInfo]
  /\ gpc' = [gpc EXCEPT ![p] = "RUnlock"]
  /\ UNCHANGED <<d, pc, call, splitArg, splitRet, build, gt, lock>>

\* c.l.RUnlock(), and the test of info against nil
GetRUnlock(p) ==
  /\ gpc[p] = "RUnlock"
  /\ lock' = [lock EXCEPT !.readers = @ \ {p}]
  /\ gpc' = [gpc EXCEPT ![p] = IF ginfo[p] = nilInfo THEN "create" ELSE "done"]
  /\ UNCHANGED <<d, pc, call, splitArg, splitRet, build, gt, ginfo>>

\* info = c.create(t, "", nil): fieldAlias ranges over locationTags in some
\* order; createField takes the lock to store the struct types of the fields
GetCreate(p) ==
  /\ gpc[p] = "create"
  /\ \E ord \in TagOrders :
     \E r \in {create(d.cache, d.cache.m, TStruct(gt), <<>>, <<>>, ord)} :
       /\ r.cm # d.cache.m => (lock.readers = {} /\ lock.writer = 0)
       /\ d' = [d EXCEPT !.cache.m = r.cm]
       /\ ginfo' = [ginfo EXCEPT ![p] = r.info]
  /\ gpc' = [gpc EXCEPT ![p] = "Lock"]
  /\ UNCHANGED <<pc, call, splitArg, splitRet, build, gt, lock>>

\* c.l.Lock()
GetLock(p) ==
  /\ gpc[p] = "Lock"
  /\ lock.readers = {} /\ lock.writer = 0
  /\ lock' = [lock EXCEPT !.writer = p]
  /\ gpc' = [gpc EXCEPT ![p] = "store"]
  /\ UNCHANGED <<d, pc, call, splitArg, splitRet, build, gt, ginfo>>

\* c.m[t] = info
GetStore(p) ==
  /\ gpc[p] = "store"
  /\ d' = [d EXCEPT !.cache.m = Put(@, gt, ginfo[p])]
  /\ gpc' = [gpc EXCEPT ![p] = "Unlock"]
  /\ UNCHANGED <<pc, call, splitArg, splitRet, build, gt, ginfo, lock>>

\* c.l.Unlock() and return info
GetUnlock(p) ==
  /\ gpc[p] = "Unlock"
  /\ lock' = [lock EXCEPT !.writer = 0]
  /\ gpc' = [gpc EXCEPT ![p] = "done"]
  /\ UNCHANGED <<d, pc, call, splitArg, splitRet, build, gt, ginfo>>

GetNext ==
  \E p \in Callers :
    \/ \E tn \in GetTypes : GetCall(p, tn)
    \/ GetRLock(p)
    \/ GetRead(p)
    \/ GetRUnlock(p)
    \/ GetCreate(p)
    \/ GetLock(p)
    \/ GetStore(p)
    \/ GetUnlock(p)

GetSpec == Init /\ [][GetNext]_vars

(***************************************************************************)
(* cache.create, call by call                                              *)
(***************************************************************************)

\* the deepest the calls in progress are followed
MaxDepth == 5

\* the struct types a structInfo is built for
BuildTypes == {"Nums", "List", "GetImagesRequest", "Outer", "Nest", "Upload",
               "Album", "Node", "Ping"}

\* a call of create(t, parentAlias, parentLocations) at its field i; at tells
\* what it does next: call hasFiles(t), call createField, or look at the
\* field createField has returned
createCall(tn, pl) == [fn |-> "create", t |-> tn, i |-> 1, at |-> "hasFiles", pl |-> pl]

\* a call of hasFiles(t) at its field i
hasFilesCall(tn) == [fn |-> "hasFiles", t |-> tn, i |-> 1, at |-> "field", pl |-> <<>>]

top == bstack[Len(bstack)]
below == SubSeq(bstack, 1, Len(bstack) - 1)

\* c.get finds no structInfo of the type and calls c.create(t, "", nil)
BuildCall(tn) ==
  /\ bt = "" /\ bstack = <<>>
  /\ bt' = tn
  /\ bstack' = <<createCall(tn, <<>>)>>
  /\ UNCHANGED <<d, pc, call, splitArg, splitRet, gt, gpc, ginfo, lock, bret>>

\* create: the argument hasFiles(t) of the call of createField for field i
CreateHasFiles ==
  /\ bstack # <<>> /\ top.fn = "create" /\ top.at = "hasFiles"
  /\ top.i <= Len(Decl(top.t))
  /\ Len(bstack) < MaxDepth
  /\ bstack' = Append(below, [top EXCEPT !.at = "createField"]) \o <<hasFilesCall(top.t)>>
  /\ UNCHANGED <<d, pc, call, splitArg, splitRet, gt, gpc, ginfo, lock, bt, bret>>

\* createField for field i: a field that is ignored or is no struct returns
\* at once, a struct-shaped field calls c.create(ft, "", nil)
CreateField ==
  /\ bstack # <<>> /\ top.fn = "create" /\ top.at = "createField"
  /\ \E ord \in TagOrders :
     \E a \in {fieldAlias(d.cache, Decl(top.t)[top.i], top.pl, bret, ord)} :
       LET ft == underlyingElem(Decl(top.t)[top.i].typ)
       IN IF a.alias = Dash \/ Kind(ft) # "struct"
          THEN bstack' = Append(below, [top EXCEPT !.i = @ + 1, !.at = "hasFiles"])
          ELSE /\ Len(bstack) < MaxDepth
               /\ bstack' = Append(below, [top EXCEPT !.at = "field", !.pl = a.locations])
                               \o <<createCall(ft.name, <<>>)>>
  /\ UNCHANGED <<d, pc, call, splitArg, splitRet, gt, gpc, ginfo, lock, bt, bret>>

\* create: the field createField has returned is an embedded struct, which
\* calls c.create(ft, f.canonicalAlias, f.locations), or is not
CreateAnonymous ==
  /\ bstack # <<>> /\ top.fn = "create" /\ top.at = "field"
  /\ LET field == Decl(top.t)[top.i]
         next == [top EXCEPT !.i = @ + 1, !.at = "hasFiles", !.pl = <<>>]
     IN IF field.anon /\ Kind(indirectType(field.typ)) = "struct"
        THEN /\ Len(bstack) < MaxDepth
             /\ bstack' = Append(below, next)
                             \o <<createCall(indirectType(field.typ).name, top.pl)>>
        ELSE bstack' = Append(below, next)
  /\ UNCHANGED <<d, pc, call, splitArg, splitRet, gt, gpc, ginfo, lock, bt, bret>>

\* create has been through every field and returns its structInfo
CreateReturn ==
  /\ bstack # <<>> /\ top.fn = "create" /\ top.at = "hasFiles"
  /\ top.i > Len(Decl(top.t))
  /\ bstack' = below
  /\ UNCHANGED <<d, pc, call, splitArg, splitRet, gt, gpc, ginfo, lock, bt, bret>>

\* hasFiles at field i: a file type returns true, a struct-shaped field calls
\* hasFiles(f), any other field is passed
HasFilesField ==
  /\ bstack # <<>> /\ top.fn = "hasFiles" /\ top.at = "field"
  /\ top.i <= Len(Decl(top.t))
  /\ LET f == underlyingElem(Decl(top.t)[top.i].typ)
     IN IF isFileType(f)
        THEN bstack' = below /\ bret' = TRUE
        ELSE IF Kind(f) = "struct"
        THEN /\ Len(bstack) < MaxDepth
             /\ bstack' = Append(below, [top EXCEPT !.at = "called"])
                             \o <<hasFilesCall(f.name)>>
             /\ UNCHANGED bret
        ELSE /\ bstack' = Append(below, [top EXCEPT !.i = @ + 1])
             /\ UNCHANGED bret
  /\ UNCHANGED <<d, pc, call, splitArg, splitRet, gt, gpc, ginfo, lock, bt>>

\* hasFiles: the call of hasFiles(f) has returned; true is returned on, false
\* goes to the next field
HasFilesCalled ==
  /\ bstack # <<>> /\ top.fn = "hasFiles" /\ top.at = "called"
  /\ IF bret THEN bstack' = below
     ELSE bstack' = Append(below, [top EXCEPT !.i = @ + 1, !.at = "field"])
  /\ UNCHANGED <<d, pc, call, splitArg, splitRet, gt, gpc, ginfo, lock, bt, bret>>

\* hasFiles has been through every field and returns false
HasFilesReturn ==
  /\ bstack # <<>> /\ top.fn = "hasFiles" /\ top.at = "field"
  /\ top.i > Len(Decl(top.t))
  /\ bstack' = below
  /\ bret' = FALSE
  /\ UNCHANGED <<d, pc, call, splitArg, splitRet, gt, gpc, ginfo, lock, bt>>

BuildNext ==
  \/ \E tn \in BuildTypes : BuildCall(tn)
  \/ CreateHasFiles
  \/ CreateField
  \/ CreateAnonymous
  \/ CreateReturn
  \/ HasFilesField
  \/ HasFilesCalled
  \/ HasFilesReturn

BuildSpec == Init /\ [][BuildNext]_vars

\* position i of the path is inside a bracket group: a left bracket before
\* it has not been closed
InGroup(p, i) ==
  \E j \in 1..(i - 1) :
    p[j] = d.cache.sepLeft /\ \A h \in (j + 1)..(i - 1) : p[h] # d.cache.sepRight

\* position i of the path is directly after a right bracket and directly
\* before a left bracket
BetweenGroups(p, i) ==
  /\ 1 < i /\ i < Len(p)
  /\ p[i - 1] = d.cache.sepRight /\ p[i + 1] = d.cache.sepLeft

\* splitPath has accepted a path under the bracketed grammar with a separator
\* that has the separator between two bracket groups
C12_SeparatorBetweenGroups ==
  /\ d.cache.sep # NUL /\ splitRet.ok
  /\ \E i \in 1..Len(splitArg) :
       splitArg[i] = d.cache.sep /\ BetweenGroups(splitArg, i)

\* C12, amended: with a separator configured, splitPath accepts a path only
\* if every separator outside a bracket group is directly followed by a left
\* bracket and stands directly after a right bracket or, before the first
\* bracket group, directly after the leading name; a separator inside a
\* bracket group is a character of its token.
C12_SeparatorOutsideGroupsAtBoundary ==
  (d.cache.sep # NUL /\ splitRet.ok) =>
    \A i \in 1..Len(splitArg) :
      splitArg[i] = d.cache.sep =>
        \/ InGroup(splitArg, i)
        \/ BetweenGroups(splitArg, i)
        \/ /\ 1 < i /\ i < Len(splitArg)
           /\ splitArg[i + 1] = d.cache.sepLeft
           /\ \A j \in 1..(i - 1) : splitArg[j] \notin {d.cache.sepLeft, d.cache.sepRight}

\* C12, as the specification states it: with a separator configured, every
\* separator of an accepted path stands between a right bracket and the next
\* left bracket.
C12_SeparatorOnlyBetweenGroups ==
  (d.cache.sep # NUL /\ splitRet.ok) =>
    \A i \in 1..Len(splitArg) :
      splitArg[i] = d.cache.sep => BetweenGroups(splitArg, i)

\* C13, as the specification states it: an accepted path has an empty
\* bracket pair only as its last group, and none of its tokens is empty.
C13_EmptyPairOnlyLast ==
  (splitArg # <<>> /\ splitRet.ok) =>
    /\ \A i \in 1..(Len(splitArg) - 1) :
         (splitArg[i] = d.cache.sepLeft /\ splitArg[i + 1] = d.cache.sepRight)
           => i + 1 = Len(splitArg)
    /\ \A k \in 1..Len(splitRet.parts) : splitRet.parts[k] # <<>>

\* C14, as the specification states it: of the parts parsePath has made for
\* an accepted key, every one but the last is an index checkpoint with an
\* index of at least 0, and only the last one carries the index -1.
C14_CheckpointIndexNotNegative ==
  \A k \in DOMAIN ps :
    \A i \in 1..Len(ps[k]) :
      IF i < Len(ps[k]) THEN ps[k][i].index >= 0 ELSE ps[k][i].index = -1

\* C15, as the specification states it: the keys of one call that carry the
\* same index token for the same sequence-of-records instance are written
\* into the same element, and each sequence grows by the number of distinct
\* index values it is addressed with, also when the enclosing sequence has
\* grown between two visits.
C15_SameIndexSameElement ==
  (/\ Returned /\ T = "Nest" /\ ret = NoErr
   /\ DOMAIN req.query \subseteq visited) =>
    /\ Len(target[sA].elems) = Cardinality({ps[k][1].index : k \in DOMAIN req.query})
    /\ \A i \in 1..Len(target[sA].elems) :
         Len(target[sA].elems[i][sB].elems)
           <= Cardinality({ps[k][2].index : k \in DOMAIN req.query})

\* the field of the target struct a key is decoded into
RootField(k) == fieldHops(T, ps[k][1].path[1])[1]

StageMap ==
  CASE pc = "extractHeader" -> [on |-> Info.containsHeader, mm |-> req.header,
                                location |-> LocationHeader]
    [] pc = "extractQuery"  -> [on |-> Info.containsQuery, mm |-> req.query,
                                location |-> LocationQuery]
    [] pc = "extractPath"   -> [on |-> Info.containsPath /\ d.pathExtractor,
                                mm |-> req.path, location |-> LocationPath]
    [] OTHER                -> [on |-> FALSE, mm |-> EmptyMap, location |-> locationNone]

\* C17, as the specification states it: what a merge of a source map leaves,
\* the errors Decode returns and, when Decode goes on, the values it decodes,
\* is the same for every order in which the map is ranged over.
C17_MergeOrderIndependent ==
  [][StageMap.on =>
       \A order \in Orders(DOMAIN StageMap.mm) :
         \E st \in {merge(d, MergeState, StageMap.mm, TStruct(T), StageMap.location, order)} :
           st.panic \/ (st.errors = errors' /\ (pc' # "done" => st.m = m'))]_vars

\* C18, as the specification states it: the calls of cache.get that have
\* returned for the same type have obtained equivalent metadata.
C18_CallersGetEqualInfo ==
  \A p, q \in Callers :
    (gpc[p] = "done" /\ gpc[q] = "done") => ginfo[p] = ginfo[q]

\* C19, as the specification states it: when decode fills a sequence of
\* opened files and the k-th file cannot be opened, the files opened before
\* it are closed, the field is left unassigned, the error of the open is the
\* error of that key, and the call does not abort.
C19_OpenFailureIsKeyError ==
  (/\ T = "Album" /\ kdoc \in visited /\ kdoc \in DOMAIN fs /\ kdoc \in DOMAIN ps
   /\ \E i \in 1..Len(fs[kdoc]) : fs[kdoc][i].open # "file") =>
    LET k == CHOOSE i \in 1..Len(fs[kdoc]) :
               /\ fs[kdoc][i].open # "file"
               /\ \A j \in 1..(i - 1) : fs[kdoc][j].open = "file"
    IN /\ pc # "panic"
       /\ target[sDoc] = target0[sDoc]
       /\ kdoc \in DOMAIN errors /\ errors[kdoc] = OpenError(fs[kdoc][k])
       /\ \A j \in 1..(k - 1) : streams[fs[kdoc][j].id] = "closed"

\* C20, as the specification states it: a merge of a source map that holds a
\* key shorter than two characters does not abort, and when Decode goes on
\* after it, every such key that names a field is among the merged values
\* under its own name.
C20_ShortKeyMerged ==
  [][(StageMap.on /\ \E k \in DOMAIN StageMap.mm : Len(k) < 2) =>
       /\ pc' # "panic"
       /\ pc' # "done" =>
            \A k \in DOMAIN StageMap.mm :
              (/\ Len(k) < 2
               /\ parsePath(d.cache, d.cache.m, k, TStruct(T), StageMap.location).err = NoErr)
                => k \in DOMAIN m']_vars

\* C21, as the specification states it: the build of a structInfo visits each
\* struct type a bounded number of times: create is not called for a type
\* while a call of create for that type is in progress, nor is hasFiles.
C21_NoTypeBuiltWithinItself ==
  \A i, j \in 1..Len(bstack) :
    (i < j /\ bstack[i].fn = bstack[j].fn) => bstack[i].t # bstack[j].t

====
